---------------------------- MODULE Spec2Model ----------------------------
(***************************************************************************)
(* EcoForge: the multi-agent carbon-footprint pipeline.                    *)
(*                                                                         *)
(* The workflow orchestrator (workflow.py) runs, per request, a supervisor *)
(* step, four concurrently gathered domain estimators, the synthesizer,    *)
(* an optional refinement pass and the evaluator, and compiles one result  *)
(* envelope.  The agents (agents/synthesizer.py, agents/refiner_loop.py,   *)
(* agents/evaluator.py) are pure functions over dict-shaped records; they  *)
(* are modelled here as operators over TLA+ records and strings.           *)
(*                                                                         *)
(* Numbers.  Python floats are modelled by scaled integers:                *)
(*   carbon footprints and co2 figures   in hundredths of a ton (x100)     *)
(*   efficiency and quality scores       as exact fractions or x100/x1000  *)
(*   eco scores                          in tenths of a point    (x10)     *)
(* Each operator states its scale.                                         *)
(***************************************************************************)
EXTENDS Integers, Sequences, FiniteSets, TLC

-----------------------------------------------------------------------------
(* Python dict / str / list primitives                                     *)

\* dict.get(key, default)
Get(d, k, default) == IF k \in DOMAIN d THEN d[k] ELSE default

\* Python None, as a record so that it can be compared with dict values
None == [py_none |-> TRUE]

\* None where the value is only ever compared with strings
NoneStr == ""

\* the empty dict {}
EmptyDict == [k \in {} |-> None]

\* bool(x) for the values the workflow tests with "not x": None and {} are falsy
Truthy(x) == x # None /\ DOMAIN x # {}

\* s[i] as a one-character string
Ch(s, i) == SubSeq(s, i, i)

\* kw in txt (substring test)
Contains(kw, txt) ==
    \E i \in 1..(Len(txt) - Len(kw) + 1) : SubSeq(txt, i, i + Len(kw) - 1) = kw

\* any(kw in txt for kw in kws)
ContainsAny(kws, txt) == \E kw \in kws : Contains(kw, txt)

UpperChars == "ABCDEFGHIJKLMNOPQRSTUVWXYZ"
LowerChars == "abcdefghijklmnopqrstuvwxyz"

LowerChar(c) ==
    IF \E i \in 1..26 : Ch(UpperChars, i) = c
    THEN Ch(LowerChars, CHOOSE i \in 1..26 : Ch(UpperChars, i) = c)
    ELSE c

RECURSIVE LowerFrom(_, _)
LowerFrom(s, i) ==
    IF i > Len(s) THEN "" ELSE LowerChar(Ch(s, i)) \o LowerFrom(s, i + 1)

\* str.lower()
Lower(s) == LowerFrom(s, 1)

DigitChars == "0123456789"

\* char.isdigit()
IsDigit(c) == \E d \in 1..10 : Ch(DigitChars, d) = c

DigitVal(c) == (CHOOSE d \in 1..10 : Ch(DigitChars, d) = c) - 1

\* any(char.isdigit() for char in s)
HasDigit(s) == \E i \in 1..Len(s) : IsDigit(Ch(s, i))

\* first index >= i that is not a digit
RECURSIVE DigitsEnd(_, _)
DigitsEnd(s, i) ==
    IF i <= Len(s) /\ IsDigit(Ch(s, i)) THEN DigitsEnd(s, i + 1) ELSE i

\* the integer written in s[i..j-1]
RECURSIVE IntOf(_, _, _)
IntOf(s, i, j) ==
    IF i >= j THEN 0 ELSE IntOf(s, i, j - 1) * 10 + DigitVal(Ch(s, j - 1))

\* the fraction written in s[i..j-1] after a decimal point, in hundredths
\* (digits after the second are dropped; the source's figures have at most one)
FracOf(s, i, j) ==
    (IF i < j THEN 10 * DigitVal(Ch(s, i)) ELSE 0)
  + (IF i + 1 < j THEN DigitVal(Ch(s, i + 1)) ELSE 0)

\* re.findall(r'(\d+(?:\.\d+)?)', s): the matches from index i on, as numbers
\* in hundredths, in order of occurrence
RECURSIVE FindNumbers(_, _)
FindNumbers(s, i) ==
    IF i > Len(s) THEN << >>
    ELSE IF ~IsDigit(Ch(s, i)) THEN FindNumbers(s, i + 1)
    ELSE LET j == DigitsEnd(s, i)
             hasFrac == j + 1 <= Len(s) /\ Ch(s, j) = "." /\ IsDigit(Ch(s, j + 1))
             k == IF hasFrac THEN DigitsEnd(s, j + 1) ELSE j
             v == 100 * IntOf(s, i, j) + (IF hasFrac THEN FracOf(s, j + 1, k) ELSE 0)
         IN  << v >> \o FindNumbers(s, k)

\* float(numbers[-1]) if numbers else default   (hundredths)
LastNumber(s, default) ==
    LET numbers == FindNumbers(s, 1)
    IN  IF numbers # << >> THEN numbers[Len(numbers)] ELSE default

\* sum of a sequence of integers
RECURSIVE SumSeq(_)
SumSeq(s) == IF s = << >> THEN 0 ELSE Head(s) + SumSeq(Tail(s))

\* number of elements of s satisfying P
Count(s, P(_)) == Len(SelectSeq(s, P))

\* [x for x in s if P(x)]
Filter(s, P(_)) == SelectSeq(s, P)

\* s[:n]
Take(s, n) == SubSeq(s, 1, IF Len(s) < n THEN Len(s) ELSE n)

\* x in s (list membership by value equality)
InList(x, s) == \E i \in 1..Len(s) : s[i] = x

\* sorted(s, key=..., reverse=True) on a list of [key, item] pairs: a stable
\* sort; a pair is inserted after every pair whose key is >= its own, so
\* items with equal keys keep their relative order
\* an insertion that puts a pair before the pairs with the same key, which
\* reverses the order of items with equal keys (a faulty variant of InsertDesc)
RECURSIVE InsertBeforeEqual(_, _)
InsertBeforeEqual(x, s) ==
    IF s = << >> THEN << x >>
    ELSE IF Head(s).key > x.key THEN << Head(s) >> \o InsertBeforeEqual(x, Tail(s))
    ELSE << x >> \o s

RECURSIVE InsertDesc(_, _)
InsertDesc(x, s) ==
    IF s = << >> THEN << x >>
    ELSE IF Head(s).key >= x.key THEN << Head(s) >> \o InsertDesc(x, Tail(s))
    ELSE << x >> \o s

RECURSIVE SortPairsDesc(_)
SortPairsDesc(s) ==
    IF s = << >> THEN << >>
    ELSE InsertDesc(s[Len(s)], SortPairsDesc(SubSeq(s, 1, Len(s) - 1)))

SortedDesc(s, Key(_)) ==
    LET pairs == [i \in 1..Len(s) |-> [key |-> Key(s[i]), item |-> s[i]]]
        sorted == SortPairsDesc(pairs)
    IN  [i \in 1..Len(s) |-> sorted[i].item]

\* round(x) half to even, of the fraction num/den (den > 0), to an integer
RoundDiv(num, den) ==
    LET q == num \div den
        r == num % den
    IN  IF 2 * r < den THEN q
        ELSE IF 2 * r > den THEN q + 1
        ELSE IF q % 2 = 0 THEN q ELSE q + 1

Max(a, b) == IF a >= b THEN a ELSE b
Min(a, b) == IF a <= b THEN a ELSE b
Abs(a) == IF a >= 0 THEN a ELSE -a

-----------------------------------------------------------------------------
(* workflow.py: the fixed domain analyses (fallbacks and demo data).        *)
(* carbon_footprint and efficiency_score are in hundredths.                 *)

Domains == {"home", "transport", "diet", "shopping"}

\* the order in which domain_results is built and iterated
DomainOrder == << "home", "transport", "diet", "shopping" >>

\* workflow.py _get_fallback_home_analysis
get_fallback_home_analysis ==
    [ agent_id |-> "home_expert_fallback",
      carbon_footprint |-> 300,
      efficiency_score |-> 40,
      recommendations |-> << [ action |-> "Install LED lighting",
                               co2_reduction |-> "0.5 tons/year",
                               priority |-> "high",
                               cost_impact |-> "Low cost, quick savings" ] >> ]

\* workflow.py _get_fallback_transport_analysis
get_fallback_transport_analysis ==
    [ agent_id |-> "transport_expert_fallback",
      carbon_footprint |-> 550,
      efficiency_score |-> 20,
      recommendations |-> << [ action |-> "Use public transportation",
                               co2_reduction |-> "2.0 tons/year",
                               priority |-> "high",
                               cost_impact |-> "Cost savings" ] >> ]

\* workflow.py _get_fallback_diet_analysis
get_fallback_diet_analysis ==
    [ agent_id |-> "diet_expert_fallback",
      carbon_footprint |-> 250,
      efficiency_score |-> 30,
      recommendations |-> << [ action |-> "Reduce meat consumption",
                               co2_reduction |-> "1.0 tons/year",
                               priority |-> "medium",
                               cost_impact |-> "Cost savings" ] >> ]

\* workflow.py _get_fallback_shopping_analysis
get_fallback_shopping_analysis ==
    [ agent_id |-> "shopping_expert_fallback",
      carbon_footprint |-> 150,
      efficiency_score |-> 40,
      recommendations |-> << [ action |-> "Buy second-hand items",
                               co2_reduction |-> "0.3 tons/year",
                               priority |-> "low",
                               cost_impact |-> "Cost savings" ] >> ]

\* workflow.py _run_home_analysis, the Config.USE_MOCK_DATA branch
mock_home_analysis ==
    [ agent_id |-> "home_expert_002",
      carbon_footprint |-> 320,
      efficiency_score |-> 40,
      energy_patterns |-> [ electricity_usage |-> "high",
                            heating_cooling |-> "moderate",
                            renewable_energy |-> FALSE,
                            smart_systems |-> FALSE ],
      key_findings |-> << "High electricity consumption in urban apartment",
                          "No renewable energy sources",
                          "Inefficient heating/cooling systems",
                          "Potential for smart home upgrades" >>,
      recommendations |-> << [ action |-> "Install solar panels or subscribe to renewable energy",
                               impact |-> "Reduce home emissions by 60-80%",
                               priority |-> "high",
                               co2_reduction |-> "2.0 tons/year",
                               cost_impact |-> "High initial, excellent long-term savings" ],
                             [ action |-> "Upgrade to smart thermostat and LED lighting",
                               impact |-> "Reduce energy consumption by 15-25%",
                               priority |-> "medium",
                               co2_reduction |-> "0.5 tons/year",
                               cost_impact |-> "Medium cost, quick payback" ],
                             [ action |-> "Improve insulation and air sealing",
                               impact |-> "Reduce heating/cooling needs by 30%",
                               priority |-> "medium",
                               co2_reduction |-> "0.8 tons/year",
                               cost_impact |-> "Medium cost, long-term savings" ] >> ]

\* workflow.py _run_transport_analysis, the Config.USE_MOCK_DATA branch
mock_transport_analysis ==
    [ agent_id |-> "transport_expert_003",
      carbon_footprint |-> 580,
      efficiency_score |-> 20,
      transport_patterns |-> [ primary_vehicle |-> "luxury_suv",
                               daily_distance |-> 20,
                               fuel_efficiency |-> "poor",
                               public_transport_usage |-> "minimal",
                               flight_frequency |-> "high" ],
      key_findings |-> << "Luxury SUV with very high emissions",
                          "Daily commuting in urban area",
                          "Minimal use of public transportation",
                          "Frequent air travel compounds impact" >>,
      recommendations |-> << [ action |-> "Switch to electric vehicle (Tesla Model Y or similar)",
                               impact |-> "Reduce transport emissions by 70-80%",
                               priority |-> "high",
                               co2_reduction |-> "4.2 tons/year",
                               cost_impact |-> "High initial, significant fuel savings" ],
                             [ action |-> "Use public transport for 50% of trips",
                               impact |-> "Reduce daily commute emissions by 60%",
                               priority |-> "high",
                               co2_reduction |-> "1.8 tons/year",
                               cost_impact |-> "Cost savings immediately" ],
                             [ action |-> "Optimize flight travel and purchase carbon offsets",
                               impact |-> "Reduce flight-related emissions",
                               priority |-> "medium",
                               co2_reduction |-> "1.0 tons/year",
                               cost_impact |-> "Medium cost for offsets" ] >> ]

\* workflow.py _run_diet_analysis, the Config.USE_MOCK_DATA branch
mock_diet_analysis ==
    [ agent_id |-> "diet_expert_004",
      carbon_footprint |-> 280,
      efficiency_score |-> 30,
      dietary_patterns |-> [ meat_consumption |-> "very_high",
                             beef_frequency |-> "daily",
                             local_sourcing |-> FALSE,
                             organic_preference |-> FALSE,
                             food_waste |-> "moderate" ],
      key_findings |-> << "Very high beef consumption (wagyu daily)",
                          "Minimal plant-based meals",
                          "Limited local/organic food sourcing",
                          "Moderate food waste levels" >>,
      recommendations |-> << [ action |-> "Reduce beef consumption to 2-3 times per week",
                               impact |-> "Reduce diet emissions by 40-50%",
                               priority |-> "high",
                               co2_reduction |-> "1.2 tons/year",
                               cost_impact |-> "Potential cost savings" ],
                             [ action |-> "Introduce 2 plant-based days per week",
                               impact |-> "Further reduce diet emissions by 20%",
                               priority |-> "medium",
                               co2_reduction |-> "0.6 tons/year",
                               cost_impact |-> "Cost savings on protein" ],
                             [ action |-> "Source locally and reduce food waste",
                               impact |-> "Reduce supply chain and waste emissions",
                               priority |-> "medium",
                               co2_reduction |-> "0.4 tons/year",
                               cost_impact |-> "Neutral to slight savings" ] >> ]

\* workflow.py _run_shopping_analysis, the Config.USE_MOCK_DATA branch
mock_shopping_analysis ==
    [ agent_id |-> "shopping_expert_005",
      carbon_footprint |-> 120,
      efficiency_score |-> 40,
      shopping_patterns |-> [ luxury_items |-> TRUE,
                              fast_fashion |-> FALSE,
                              second_hand_preference |-> FALSE,
                              local_shopping |-> TRUE,
                              shopping_frequency |-> "monthly" ],
      key_findings |-> << "High-quality luxury purchases (better longevity)",
                          "Monthly shopping frequency is reasonable",
                          "Limited second-hand or sustainable options",
                          "Local shopping reduces transport emissions" >>,
      recommendations |-> << [ action |-> "Incorporate 30% second-hand luxury items",
                               impact |-> "Reduce shopping emissions by 25%",
                               priority |-> "medium",
                               co2_reduction |-> "0.3 tons/year",
                               cost_impact |-> "Significant cost savings" ],
                             [ action |-> "Choose sustainable luxury brands",
                               impact |-> "Support circular economy",
                               priority |-> "medium",
                               co2_reduction |-> "0.2 tons/year",
                               cost_impact |-> "Similar cost, better impact" ],
                             [ action |-> "Extend product lifecycles through care",
                               impact |-> "Reduce replacement frequency",
                               priority |-> "low",
                               co2_reduction |-> "0.1 tons/year",
                               cost_impact |-> "Cost savings long-term" ] >> ]


get_fallback_analysis(d) ==
    CASE d = "home" -> get_fallback_home_analysis
      [] d = "transport" -> get_fallback_transport_analysis
      [] d = "diet" -> get_fallback_diet_analysis
      [] d = "shopping" -> get_fallback_shopping_analysis

mock_analysis(d) ==
    CASE d = "home" -> mock_home_analysis
      [] d = "transport" -> mock_transport_analysis
      [] d = "diet" -> mock_diet_analysis
      [] d = "shopping" -> mock_shopping_analysis

-----------------------------------------------------------------------------
(* agents/home_expert.py, agents/transport_expert.py, agents/diet_expert.py  *)
(* and agents/shopping_expert.py: the four domain estimators.  Each reads    *)
(* keyword patterns off the lower-cased request text, computes a footprint   *)
(* (hundredths of a ton) and an efficiency score (hundredths).               *)

\* for label, keywords in table.items(): if any(k in text ...): ...; break
\* -- the label of the first entry one of whose keywords occurs in the text
FirstMatch(table, text, default) ==
    LET hits == { i \in 1..Len(table) : ContainsAny(table[i][2], text) }
    IN  IF hits = {} THEN default
        ELSE table[CHOOSE i \in hits : \A j \in hits : i <= j][1]

\* a score returned as it was added up (a faulty variant of ClampUnit)
Unclamped(score) == score

\* max(0.0, min(1.0, score)) on hundredths
ClampUnit(score) == Max(0, Min(100, score))

\* _get_electricity_carbon_intensity: the table entry of the location's
\* country (gCO2/kWh, fossil-free percentage), Japan's for any other
electricity_mock_data ==
    [JP |-> [carbon_intensity |-> 518, fossil_free_percentage |-> 22],
     US |-> [carbon_intensity |-> 386, fossil_free_percentage |-> 40],
     GB |-> [carbon_intensity |-> 254, fossil_free_percentage |-> 48],
     DE |-> [carbon_intensity |-> 338, fossil_free_percentage |-> 46],
     FR |-> [carbon_intensity |-> 85, fossil_free_percentage |-> 92]]

country_codes ==
    [c \in {"Japan", "United States", "United Kingdom", "Germany", "France"} |->
        CASE c = "Japan" -> "JP"
          [] c = "United States" -> "US"
          [] c = "United Kingdom" -> "GB"
          [] c = "Germany" -> "DE"
          [] c = "France" -> "FR"]

get_electricity_carbon_intensity(location) ==
    LET country == Get(location, "country", "Japan")
        zone == Get(country_codes, country, "JP")
    IN  [carbon_intensity |-> electricity_mock_data[zone].carbon_intensity,
         fossil_free_percentage |-> electricity_mock_data[zone].fossil_free_percentage,
         zone |-> zone,
         source |-> "electricity_maps_api"]

\* what requests.get gave the weather lookup: a failure (exception or a
\* status other than 200), or a report with a current temperature (whole
\* degrees)
WeatherFailed == [ok |-> FALSE]
WeatherReport(temperature) == [ok |-> TRUE, temperature |-> temperature]

fallback_weather ==
    [current_temperature |-> 22, heating_degree_days |-> 0, cooling_degree_days |-> 4,
     source |-> "fallback_data"]

get_weather_data(response) ==
    IF ~response.ok THEN fallback_weather
    ELSE [current_temperature |-> response.temperature,
          heating_degree_days |-> Max(0, 18 - response.temperature),
          cooling_degree_days |-> Max(0, response.temperature - 24),
          source |-> "open_meteo_api"]

size_indicators ==
    << << "large", {"mansion", "large house", "big home", "5 bedroom", "6 bedroom"} >>,
       << "small", {"apartment", "studio", "small", "1 bedroom", "2 bedroom"} >>,
       << "medium", {"house", "home", "3 bedroom", "4 bedroom"} >> >>

efficiency_indicators ==
    << << "high", {"energy efficient", "smart home", "led lights", "solar panels",
                   "heat pump"} >>,
       << "low", {"old house", "poor insulation", "electric heating", "incandescent"} >>,
       << "standard", {"standard", "average", "typical"} >> >>

analyze_energy_patterns(user_input) ==
    LET text == Lower(user_input)
    IN  [home_size |-> FirstMatch(size_indicators, text, "medium"),
         heating_type |-> "gas",
         cooling_usage |-> "medium",
         appliance_efficiency |-> FirstMatch(efficiency_indicators, text, "standard"),
         lighting_type |-> "mixed",
         insulation_quality |-> "average",
         renewable_energy |->
            ContainsAny({"solar", "wind", "renewable", "green energy", "solar panels"}, text)]

\* kWh per year, before the weather adjustment
home_base_consumption(energy_patterns) ==
    LET size == energy_patterns.home_size
        level == energy_patterns.appliance_efficiency
        base == IF size = "small" THEN 8000 ELSE IF size = "large" THEN 20000 ELSE 12000
        tenths == IF level = "high" THEN 7 ELSE IF level = "low" THEN 14 ELSE 10
    IN  (base * tenths) \div 10

\* tons of CO2 per year, rounded to 2 decimals (hundredths):
\* consumption * intensity / 1000 / 1000, consumption * 0.3 with renewables
calculate_home_carbon_footprint(energy_patterns, carbon_intensity, weather_data) ==
    LET consumption == home_base_consumption(energy_patterns)
                       + 10 * (weather_data.heating_degree_days
                               + weather_data.cooling_degree_days)
        intensity == carbon_intensity.carbon_intensity
    IN  IF energy_patterns.renewable_energy
        THEN RoundDiv(3 * consumption * intensity, 100000)
        ELSE RoundDiv(consumption * intensity, 10000)

home_recommendations(energy_patterns, carbon_intensity, weather_data) ==
       (IF ~energy_patterns.renewable_energy /\ carbon_intensity.fossil_free_percentage < 50
        THEN << [action |-> "Install solar panels",
                 impact |-> "Reduce home emissions by 70-90%",
                 cost |-> "High initial investment, 6-8 year payback",
                 priority |-> "high",
                 co2_reduction |-> "8-12 tons/year"] >>
        ELSE << >>)
    \o (IF weather_data.heating_degree_days > 5 \/ weather_data.cooling_degree_days > 5
        THEN << [action |-> "Install heat pump system",
                 impact |-> "Reduce heating/cooling emissions by 50-70%",
                 cost |-> "Medium investment, 4-6 year payback",
                 priority |-> "medium",
                 co2_reduction |-> "2-4 tons/year"] >>
        ELSE << >>)
    \o (IF energy_patterns.appliance_efficiency = "low"
        THEN << [action |-> "Upgrade insulation and windows",
                 impact |-> "Reduce energy needs by 30-50%",
                 cost |-> "Medium investment, 3-5 year payback",
                 priority |-> "medium",
                 co2_reduction |-> "1-3 tons/year"] >>
        ELSE << >>)
    \o << [action |-> "Install smart thermostat and LED lighting",
           impact |-> "Reduce energy consumption by 15-25%",
           cost |-> "Low investment, 1-2 year payback",
           priority |-> "low",
           co2_reduction |-> "0.5-1.5 tons/year"] >>

calculate_home_efficiency_score(energy_patterns) ==
    LET size == energy_patterns.home_size
        level == energy_patterns.appliance_efficiency
    IN  ClampUnit(50
                  + (IF size = "small" THEN 30 ELSE IF size = "large" THEN -20 ELSE 0)
                  + (IF level = "high" THEN 30 ELSE IF level = "low" THEN -30 ELSE 0)
                  + (IF energy_patterns.renewable_energy THEN 40 ELSE 0))

home_key_findings(energy_patterns, carbon_footprint) ==
       (IF carbon_footprint > 500 THEN << "High home energy emissions detected" >>
        ELSE IF carbon_footprint < 200 THEN << "Excellent home energy efficiency" >>
        ELSE << >>)
    \o (IF ~energy_patterns.renewable_energy
        THEN << "No renewable energy sources identified" >> ELSE << >>)
    \o (IF energy_patterns.appliance_efficiency = "low"
        THEN << "Significant efficiency improvement potential" >> ELSE << >>)

\* HomeExpertAgent.analyze(user_input, location); response is what the
\* weather service answered
home_analyze(user_input, location, response) ==
    LET carbon_intensity == get_electricity_carbon_intensity(location)
        weather_data == get_weather_data(response)
        energy_patterns == analyze_energy_patterns(user_input)
        carbon_footprint ==
            calculate_home_carbon_footprint(energy_patterns, carbon_intensity, weather_data)
    IN  [agent_id |-> "home_guardian_001",
         carbon_footprint |-> carbon_footprint,
         energy_patterns |-> energy_patterns,
         local_carbon_intensity |-> carbon_intensity,
         weather_impact |-> weather_data,
         recommendations |->
            home_recommendations(energy_patterns, carbon_intensity, weather_data),
         efficiency_score |-> calculate_home_efficiency_score(energy_patterns),
         key_findings |-> home_key_findings(energy_patterns, carbon_footprint)]

\* TransportExpertAgent: kg CO2 per km, in hundredths
emission_factors ==
    [private_jet |-> 250, helicopter |-> 180, luxury_car |-> 35, suv |-> 25,
     sedan |-> 18, hybrid |-> 12, electric |-> 5, motorcycle |-> 15, bus |-> 8,
     train |-> 4, bike |-> 0, walk |-> 0]

vehicle_keywords ==
    << << "private_jet", {"private jet", "jet", "private plane"} >>,
       << "helicopter", {"helicopter", "chopper"} >>,
       << "luxury_car", {"luxury car", "ferrari", "lamborghini", "porsche", "bentley",
                         "rolls royce"} >>,
       << "suv", {"suv", "v8", "v12", "truck", "pickup"} >>,
       << "hybrid", {"hybrid", "prius", "camry hybrid"} >>,
       << "electric", {"tesla", "electric car", "ev", "electric vehicle"} >>,
       << "motorcycle", {"motorcycle", "bike", "motorbike"} >>,
       << "sedan", {"car", "sedan", "drive"} >> >>

\* first index >= i that is not a space
RECURSIVE SpacesEnd(_, _)
SpacesEnd(s, i) ==
    IF i <= Len(s) /\ Ch(s, i) = " " THEN SpacesEnd(s, i + 1) ELSE i

StartsWithAt(s, i, prefix) ==
    i + Len(prefix) - 1 <= Len(s) /\ SubSeq(s, i, i + Len(prefix) - 1) = prefix

\* re.findall(r'(\d+)\s*(km|mile|miles)', s)[0] from index i on: the first run
\* of digits followed, after optional spaces, by a unit; << >> when there is
\* none, else << distance in tenths of a km >> (a mile counts 1.6 km)
RECURSIVE FirstDistance(_, _)
FirstDistance(s, i) ==
    IF i > Len(s) THEN << >>
    ELSE IF ~IsDigit(Ch(s, i)) THEN FirstDistance(s, i + 1)
    ELSE LET j == DigitsEnd(s, i)
             k == SpacesEnd(s, j)
         IN  IF StartsWithAt(s, k, "km") THEN << 10 * IntOf(s, i, j) >>
             ELSE IF StartsWithAt(s, k, "mile") THEN << 16 * IntOf(s, i, j) >>
             ELSE FirstDistance(s, j)

\* daily_distance is in tenths of a km, flight_distance in km
analyze_transport_patterns(user_input) ==
    LET text == Lower(user_input)
        flies == ContainsAny({"fly", "flight", "airplane", "plane", "travel"}, text)
        flights == IF flies /\ Contains("daily", text) THEN << 7, 1000 >>
                   ELSE IF flies /\ Contains("weekly", text) THEN << 1, 2000 >>
                   ELSE IF flies /\ Contains("private jet", text) THEN << 2, 3000 >>
                   ELSE << 0, 0 >>
        distance_patterns == FirstDistance(text, 1)
    IN  [primary_vehicle |-> FirstMatch(vehicle_keywords, text, "sedan"),
         daily_distance |->
            IF distance_patterns # << >> THEN distance_patterns[1] ELSE 300,
         weekly_flights |-> flights[1],
         flight_distance |-> flights[2],
         public_transport_usage |-> "low",
         walking_biking |-> "low",
         luxury_transport |->
            ContainsAny({"luxury", "private", "exclusive", "premium", "first class"}, text)]

get_local_transport_options(location) ==
    LET city == Get(location, "city", "Tokyo")
    IN  IF city = "Tokyo"
        THEN [public_transport_quality |-> "excellent", bike_infrastructure |-> "good",
              ev_charging_stations |-> 5000, car_sharing |-> TRUE, ride_sharing |-> TRUE]
        ELSE IF city = "New York"
        THEN [public_transport_quality |-> "good", bike_infrastructure |-> "excellent",
              ev_charging_stations |-> 3000, car_sharing |-> TRUE, ride_sharing |-> TRUE]
        ELSE IF city = "London"
        THEN [public_transport_quality |-> "excellent", bike_infrastructure |-> "good",
              ev_charging_stations |-> 4000, car_sharing |-> TRUE, ride_sharing |-> TRUE]
        ELSE [public_transport_quality |-> "average", bike_infrastructure |-> "average",
              ev_charging_stations |-> 1000, car_sharing |-> FALSE, ride_sharing |-> TRUE]

\* annual vehicle emissions, tons per year times 10000:
\* daily_distance * emission_factor * 365 / 1000
annual_vehicle_emissions(transport_patterns) ==
    transport_patterns.daily_distance
      * Get(emission_factors, transport_patterns.primary_vehicle, 18) * 365

\* annual flight emissions, tons per year times 10000:
\* weekly_flights * flight_distance * factor * 52 / 1000
annual_flight_emissions(transport_patterns) ==
    transport_patterns.weekly_flights * transport_patterns.flight_distance
      * (IF transport_patterns.primary_vehicle = "private_jet" THEN 250 ELSE 25) * 520

\* tons of CO2 per year, rounded to 2 decimals (hundredths)
calculate_transport_carbon_footprint(transport_patterns) ==
    RoundDiv(annual_vehicle_emissions(transport_patterns)
               + annual_flight_emissions(transport_patterns),
             10000)

generate_route_optimizations(transport_patterns, local_options) ==
       (IF transport_patterns.daily_distance > 500
        THEN << [type |-> "route_optimization",
                 suggestion |-> "Combine trips and optimize routes",
                 potential_reduction |-> "15-25%",
                 implementation |-> "Use route planning apps, combine errands"] >>
        ELSE << >>)
    \o (IF local_options.public_transport_quality \in {"good", "excellent"}
        THEN << [type |-> "modal_shift",
                 suggestion |-> "Integrate public transport for longer distances",
                 potential_reduction |-> "40-60%",
                 implementation |->
                    "Use public transport for commuting, car for specific needs"] >>
        ELSE << >>)
    \o (IF local_options.ev_charging_stations > 1000
        THEN << [type |-> "electrification",
                 suggestion |-> "Switch to electric vehicle",
                 potential_reduction |-> "70-90%",
                 implementation |-> "Abundant charging infrastructure available"] >>
        ELSE << >>)

recommend_alternatives(transport_patterns, local_options) ==
       (IF transport_patterns.primary_vehicle \in {"luxury_car", "suv", "sedan"}
        THEN << [alternative |-> "Electric Vehicle",
                 emission_reduction |-> "70-90%",
                 cost_impact |-> "Higher upfront, lower operating costs",
                 feasibility |-> IF local_options.ev_charging_stations > 500
                                 THEN "high" ELSE "medium",
                 annual_savings |-> "3-8 tons CO2"] >>
        ELSE << >>)
    \o (IF local_options.public_transport_quality \in {"good", "excellent"}
        THEN << [alternative |-> "Public Transport + Car Sharing",
                 emission_reduction |-> "60-80%",
                 cost_impact |-> "Significant cost savings",
                 feasibility |-> "high",
                 annual_savings |-> "4-10 tons CO2"] >>
        ELSE << >>)
    \o (IF local_options.bike_infrastructure \in {"good", "excellent"}
        THEN << [alternative |-> "Bike + Public Transport Combo",
                 emission_reduction |-> "80-95%",
                 cost_impact |-> "Major cost savings",
                 feasibility |-> "medium",
                 annual_savings |-> "6-12 tons CO2"] >>
        ELSE << >>)
    \o (IF transport_patterns.weekly_flights > 0
        THEN << [alternative |-> "High-speed rail for regional travel",
                 emission_reduction |-> "85-95%",
                 cost_impact |-> "Often comparable to flights",
                 feasibility |-> "depends on routes",
                 annual_savings |-> "10-50 tons CO2"] >>
        ELSE << >>)

\* vehicle_scores, in tenths; 0.4 for a vehicle that is not in the table
vehicle_scores ==
    [walk |-> 10, bike |-> 10, electric |-> 9, hybrid |-> 7, train |-> 8, bus |-> 6,
     sedan |-> 4, suv |-> 2, luxury_car |-> 1, private_jet |-> 0, helicopter |-> 0]

\* the efficiency score in thousandths: the vehicle's score, times 0.5 above
\* 100 km a day or 0.7 above 50 km, times 0.3 with flights, clamped to [0, 1]
calculate_transport_efficiency(transport_patterns) ==
    LET vehicle == Get(vehicle_scores, transport_patterns.primary_vehicle, 4)
        distance == IF transport_patterns.daily_distance > 1000 THEN 5
                    ELSE IF transport_patterns.daily_distance > 500 THEN 7 ELSE 10
        flights == IF transport_patterns.weekly_flights > 0 THEN 3 ELSE 10
    IN  Max(0, Min(1000, vehicle * distance * flights))

transport_key_findings(transport_patterns, carbon_footprint) ==
       (IF carbon_footprint > 1000 THEN << "Extremely high transport emissions detected" >>
        ELSE IF carbon_footprint > 500
        THEN << "High transport emissions - major improvement potential" >>
        ELSE << >>)
    \o (IF transport_patterns.primary_vehicle \in {"private_jet", "helicopter"}
        THEN << "Ultra-luxury transport with massive carbon impact" >> ELSE << >>)
    \o (IF transport_patterns.weekly_flights > 1
        THEN << "Frequent flying is primary emissions source" >> ELSE << >>)
    \o (IF transport_patterns.daily_distance > 1000
        THEN << "Excessive daily travel distance" >> ELSE << >>)

\* TransportExpertAgent.analyze(user_input, location); the record holds the
\* efficiency score in hundredths like the other analyses (a score with a
\* third decimal, which a long daily distance combined with flights gives,
\* is rounded to the hundredth)
transport_analyze(user_input, location) ==
    LET transport_patterns == analyze_transport_patterns(user_input)
        local_options == get_local_transport_options(location)
        carbon_footprint == calculate_transport_carbon_footprint(transport_patterns)
    IN  [agent_id |-> "transport_racer_002",
         carbon_footprint |-> carbon_footprint,
         transport_patterns |-> transport_patterns,
         local_options |-> local_options,
         route_optimizations |->
            generate_route_optimizations(transport_patterns, local_options),
         alternatives |-> recommend_alternatives(transport_patterns, local_options),
         efficiency_score |->
            RoundDiv(calculate_transport_efficiency(transport_patterns), 10),
         key_findings |-> transport_key_findings(transport_patterns, carbon_footprint)]

\* DietExpertAgent: kg CO2 per kg of food, in tenths
food_emissions ==
    [beef |-> 600, lamb |-> 240, cheese |-> 210, pork |-> 72, chicken |-> 69,
     fish |-> 61, eggs |-> 42, rice |-> 27, milk |-> 32, wheat |-> 14,
     vegetables |-> 4, fruits |-> 3, legumes |-> 7, nuts |-> 3]

diet_type_keywords ==
    << << "vegan", {"vegan", "plant-based", "no animal products"} >>,
       << "vegetarian", {"vegetarian", "no meat", "plant diet"} >>,
       << "pescatarian", {"pescatarian", "fish only", "no meat except fish"} >>,
       << "omnivore", {"meat", "everything", "omnivore"} >> >>

meat_keywords ==
    << << "beef", {"beef", "steak", "wagyu", "hamburger", "burger"} >>,
       << "pork", {"pork", "bacon", "ham", "sausage"} >>,
       << "chicken", {"chicken", "poultry", "turkey"} >>,
       << "lamb", {"lamb", "mutton"} >>,
       << "fish", {"fish", "salmon", "tuna", "seafood"} >> >>

meat_frequency_keywords ==
    << << "daily", {"daily", "every day", "each day"} >>,
       << "weekly", {"weekly", "few times a week", "several times"} >>,
       << "monthly", {"monthly", "rarely", "occasionally"} >> >>

\* the labels of all entries one of whose keywords occurs in the text, in
\* table order
RECURSIVE AllMatches(_, _)
AllMatches(table, text) ==
    IF table = << >> THEN << >>
    ELSE (IF ContainsAny(Head(table)[2], text) THEN << Head(table)[1] >> ELSE << >>)
         \o AllMatches(Tail(table), text)

analyze_dietary_patterns(user_input) ==
    LET text == Lower(user_input)
    IN  [diet_type |-> FirstMatch(diet_type_keywords, text, "omnivore"),
         meat_frequency |-> FirstMatch(meat_frequency_keywords, text, "daily"),
         meat_types |-> AllMatches(meat_keywords, text),
         dairy_consumption |-> "medium",
         local_food |-> "low",
         organic_preference |->
            ContainsAny({"local", "organic", "farm-to-table", "sustainable",
                         "farmers market"}, text),
         meal_frequency |-> 3,
         luxury_foods |->
            ContainsAny({"wagyu", "caviar", "truffle", "premium", "expensive",
                         "fine dining"}, text)]

get_local_food_data(location) ==
    LET city == Get(location, "city", "Tokyo")
    IN  IF city = "Tokyo"
        THEN [local_produce_availability |-> 60,
              seasonal_variety |-> << "rice", "vegetables", "fish" >>,
              food_miles_average |-> 800, organic_market_share |-> 15]
        ELSE IF city = "New York"
        THEN [local_produce_availability |-> 40,
              seasonal_variety |-> << "apples", "vegetables", "dairy" >>,
              food_miles_average |-> 1200, organic_market_share |-> 25]
        ELSE IF city = "London"
        THEN [local_produce_availability |-> 50,
              seasonal_variety |-> << "vegetables", "dairy", "grains" >>,
              food_miles_average |-> 900, organic_market_share |-> 20]
        ELSE [local_produce_availability |-> 50,
              seasonal_variety |-> << "vegetables", "grains" >>,
              food_miles_average |-> 1000, organic_market_share |-> 18]

\* kg of a meat per year before the frequency multiplier: none for a diet
\* without meat
meat_base_consumption(dietary_patterns, food_type) ==
    IF dietary_patterns.diet_type \in {"vegan", "vegetarian", "pescatarian"} THEN 0
    ELSE IF food_type = "beef" THEN 20
    ELSE IF food_type = "pork" THEN 15
    ELSE 25

\* frequency_multipliers, in tenths
meat_multiplier(dietary_patterns) ==
    IF dietary_patterns.meat_frequency = "daily" THEN 15
    ELSE IF dietary_patterns.meat_frequency = "monthly" THEN 3
    ELSE 10

\* kg CO2 per year of one meat, times 100
meat_emissions(dietary_patterns, food_type) ==
    IF InList(food_type, dietary_patterns.meat_types)
    THEN meat_base_consumption(dietary_patterns, food_type)
           * meat_multiplier(dietary_patterns)
           * (IF dietary_patterns.luxury_foods /\ food_type = "beef" THEN 2 ELSE 1)
           * food_emissions[food_type]
    ELSE 0

\* kg CO2 per year, times 100
diet_annual_emissions(dietary_patterns) ==
    LET vegan == dietary_patterns.diet_type = "vegan"
        organic == IF dietary_patterns.organic_preference THEN 8 ELSE 10
    IN    meat_emissions(dietary_patterns, "beef")
        + meat_emissions(dietary_patterns, "pork")
        + meat_emissions(dietary_patterns, "chicken")
        + (IF vegan THEN 0
           ELSE 15 * (IF InList("fish", dietary_patterns.meat_types) THEN 15 ELSE 10)
                   * food_emissions.fish)
        + (IF vegan THEN 0 ELSE 100 * 10 * food_emissions.milk)
        + 150 * organic * food_emissions.vegetables
        + 80 * organic * food_emissions.fruits
        + 120 * 10 * food_emissions.wheat

\* tons of CO2 per year, rounded to 2 decimals (hundredths)
calculate_diet_carbon_footprint(dietary_patterns) ==
    RoundDiv(diet_annual_emissions(dietary_patterns), 1000)

\* diet_nutrition, in tenths
diet_nutrition(diet_type) ==
    IF diet_type = "vegan" THEN [protein |-> 7, b12 |-> 3, iron |-> 6, omega3 |-> 4]
    ELSE IF diet_type = "vegetarian" THEN [protein |-> 8, b12 |-> 7, iron |-> 7, omega3 |-> 5]
    ELSE IF diet_type = "pescatarian" THEN [protein |-> 9, b12 |-> 9, iron |-> 8, omega3 |-> 9]
    ELSE [protein |-> 9, b12 |-> 9, iron |-> 9, omega3 |-> 7]

get_nutrition_recommendations(nutrition_profile) ==
       (IF nutrition_profile.protein < 8
        THEN << "Consider adding legumes, nuts, or plant-based protein sources" >>
        ELSE << >>)
    \o (IF nutrition_profile.b12 < 7
        THEN << "Consider B12 supplementation or fortified foods" >> ELSE << >>)
    \o (IF nutrition_profile.iron < 7
        THEN << "Include iron-rich foods like spinach, lentils, or lean meats" >>
        ELSE << >>)
    \o (IF nutrition_profile.omega3 < 6
        THEN << "Add omega-3 sources like fish, walnuts, or flax seeds" >> ELSE << >>)

\* overall_score is the mean of the four figures, as a fraction of tenths
analyze_nutritional_balance(dietary_patterns) ==
    LET nutrition_profile == diet_nutrition(dietary_patterns.diet_type)
    IN  [overall_score |->
            [num |-> nutrition_profile.protein + nutrition_profile.b12
                       + nutrition_profile.iron + nutrition_profile.omega3,
             den |-> 40],
         protein_adequacy |-> nutrition_profile.protein,
         b12_status |-> nutrition_profile.b12,
         iron_status |-> nutrition_profile.iron,
         omega3_status |-> nutrition_profile.omega3,
         recommendations |-> get_nutrition_recommendations(nutrition_profile)]

generate_dietary_recommendations(dietary_patterns) ==
       (IF dietary_patterns.diet_type = "omnivore" /\ dietary_patterns.meat_frequency = "daily"
        THEN << [action |-> "Reduce meat consumption to 3-4 times per week",
                 impact |-> "Reduce diet emissions by 30-40%",
                 nutrition_impact |-> "Maintain protein with legumes and fish",
                 priority |-> "high",
                 co2_reduction |-> "1-2 tons/year"] >>
        ELSE << >>)
    \o (IF InList("beef", dietary_patterns.meat_types)
        THEN << [action |-> "Replace beef with chicken or plant proteins",
                 impact |-> "Reduce diet emissions by 50-70%",
                 nutrition_impact |-> "Similar protein content, lower saturated fat",
                 priority |-> "high",
                 co2_reduction |-> "2-4 tons/year"] >>
        ELSE << >>)
    \o (IF ~dietary_patterns.organic_preference
        THEN << [action |-> "Choose local and seasonal produce",
                 impact |-> "Reduce transport emissions by 20-30%",
                 nutrition_impact |-> "Fresher nutrients, seasonal variety",
                 priority |-> "medium",
                 co2_reduction |-> "0.3-0.8 tons/year"] >>
        ELSE << >>)
    \o << [action |-> "Implement 2-3 plant-based days per week",
           impact |-> "Reduce weekly diet emissions by 25-35%",
           nutrition_impact |-> "Increase fiber and antioxidants",
           priority |-> "medium",
           co2_reduction |-> "0.8-1.5 tons/year"] >>

calculate_diet_efficiency(dietary_patterns) ==
    LET diet_type == dietary_patterns.diet_type
        frequency == dietary_patterns.meat_frequency
    IN  ClampUnit((IF diet_type = "vegan" THEN 90
                   ELSE IF diet_type = "vegetarian" THEN 70
                   ELSE IF diet_type = "pescatarian" THEN 60
                   ELSE 30)
                  + (IF diet_type # "omnivore" THEN 0
                     ELSE IF frequency = "weekly" THEN 20
                     ELSE IF frequency = "monthly" THEN 40
                     ELSE 0)
                  + (IF dietary_patterns.organic_preference THEN 10 ELSE 0)
                  - (IF dietary_patterns.luxury_foods THEN 20 ELSE 0))

diet_key_findings(dietary_patterns, carbon_footprint) ==
       (IF carbon_footprint > 400
        THEN << "High-impact diet with significant reduction potential" >> ELSE << >>)
    \o (IF InList("beef", dietary_patterns.meat_types)
           /\ dietary_patterns.meat_frequency = "daily"
        THEN << "Daily beef consumption is primary diet emission source" >> ELSE << >>)
    \o (IF dietary_patterns.luxury_foods
        THEN << "Luxury food choices significantly increase carbon impact" >> ELSE << >>)
    \o (IF dietary_patterns.diet_type \in {"vegan", "vegetarian"}
        THEN << "Plant-based diet provides excellent carbon efficiency" >> ELSE << >>)

\* DietExpertAgent.analyze(user_input, location)
diet_analyze(user_input, location) ==
    LET dietary_patterns == analyze_dietary_patterns(user_input)
        carbon_footprint == calculate_diet_carbon_footprint(dietary_patterns)
    IN  [agent_id |-> "diet_shaman_003",
         carbon_footprint |-> carbon_footprint,
         dietary_patterns |-> dietary_patterns,
         local_sourcing |-> get_local_food_data(location),
         nutritional_analysis |-> analyze_nutritional_balance(dietary_patterns),
         recommendations |-> generate_dietary_recommendations(dietary_patterns),
         efficiency_score |-> calculate_diet_efficiency(dietary_patterns),
         key_findings |-> diet_key_findings(dietary_patterns, carbon_footprint)]

\* ShoppingExpertAgent: product_categories, avg_emissions in kg CO2 per item,
\* times 10
product_emissions ==
    [clothing |-> 80, electronics |-> 3000, furniture |-> 1500, appliances |-> 5000,
     books |-> 25, cosmetics |-> 30]

shopping_frequency_keywords ==
    << << "daily", {"daily shopping", "shop every day"} >>,
       << "weekly", {"weekly", "once a week", "weekend shopping"} >>,
       << "monthly", {"monthly", "once a month", "rarely shop"} >> >>

analyze_shopping_patterns(user_input) ==
    LET text == Lower(user_input)
    IN  [shopping_frequency |-> FirstMatch(shopping_frequency_keywords, text, "weekly"),
         luxury_purchases |->
            ContainsAny({"luxury", "designer", "premium", "expensive", "high-end",
                         "exclusive"}, text),
         fast_fashion |->
            ContainsAny({"new clothes", "fashion", "shopping spree", "trendy",
                         "latest style"}, text),
         electronics_upgrade_cycle |->
            IF ContainsAny({"latest phone", "new laptop", "upgrade", "newest model",
                            "tech enthusiast"}, text)
            THEN "1-2 years" ELSE "3-5 years",
         second_hand_preference |->
            ContainsAny({"second hand", "thrift", "vintage", "refurbished", "eco-friendly",
                         "sustainable"}, text),
         brand_consciousness |-> "medium",
         impulse_buying |-> "medium",
         bulk_buying |-> FALSE,
         online_vs_physical |-> "mixed"]

get_local_shopping_data(location) ==
    LET city == Get(location, "city", "Tokyo")
    IN  IF city = "Tokyo"
        THEN [second_hand_stores |-> "excellent", repair_services |-> "good",
              local_artisans |-> "excellent", sustainable_brands |-> "good",
              recycling_programs |-> "excellent"]
        ELSE IF city = "New York"
        THEN [second_hand_stores |-> "excellent", repair_services |-> "excellent",
              local_artisans |-> "good", sustainable_brands |-> "excellent",
              recycling_programs |-> "good"]
        ELSE IF city = "London"
        THEN [second_hand_stores |-> "excellent", repair_services |-> "good",
              local_artisans |-> "good", sustainable_brands |-> "excellent",
              recycling_programs |-> "excellent"]
        ELSE [second_hand_stores |-> "average", repair_services |-> "average",
              local_artisans |-> "average", sustainable_brands |-> "average",
              recycling_programs |-> "average"]

\* items per year by category, times 10, after the pattern adjustments and
\* before the frequency multiplier
shopping_base_consumption(shopping_patterns) ==
    [clothing |-> 200 * (IF shopping_patterns.luxury_purchases THEN 2 ELSE 1)
                      * (IF shopping_patterns.fast_fashion THEN 3 ELSE 1),
     electronics |-> (IF shopping_patterns.luxury_purchases THEN 15 ELSE 10)
                     * (IF shopping_patterns.electronics_upgrade_cycle = "1-2 years"
                        THEN 2 ELSE 1),
     furniture |-> 5,
     appliances |-> 2,
     books |-> 100,
     cosmetics |-> 120]

\* frequency_multipliers, in tenths
shopping_freq_multiplier(shopping_patterns) ==
    IF shopping_patterns.shopping_frequency = "daily" THEN 20
    ELSE IF shopping_patterns.shopping_frequency = "monthly" THEN 5
    ELSE 10

\* kg CO2 per year of one category, times 10000
category_emissions(shopping_patterns, category) ==
    shopping_base_consumption(shopping_patterns)[category]
      * shopping_freq_multiplier(shopping_patterns)
      * (IF category = "clothing" /\ shopping_patterns.second_hand_preference
         THEN 3 ELSE 10)
      * product_emissions[category]

\* tons of CO2 per year, rounded to 2 decimals (hundredths)
calculate_shopping_carbon_footprint(shopping_patterns) ==
    RoundDiv(  category_emissions(shopping_patterns, "clothing")
             + category_emissions(shopping_patterns, "electronics")
             + category_emissions(shopping_patterns, "furniture")
             + category_emissions(shopping_patterns, "appliances")
             + category_emissions(shopping_patterns, "books")
             + category_emissions(shopping_patterns, "cosmetics"),
             100000)

analyze_circular_economy_potential(shopping_patterns) ==
    LET luxury == shopping_patterns.luxury_purchases
        upgrades == shopping_patterns.electronics_upgrade_cycle = "1-2 years"
        fashion == shopping_patterns.fast_fashion
    IN  [repair_potential |-> IF upgrades THEN "high" ELSE "medium",
         resale_potential |-> IF luxury \/ upgrades THEN "high" ELSE "medium",
         sharing_potential |-> IF fashion THEN "medium" ELSE "low",
         upcycling_potential |-> IF fashion THEN "high" ELSE "low",
         rental_potential |-> IF luxury THEN "high" ELSE "low"]

generate_shopping_recommendations(shopping_patterns, local_infrastructure,
                                  circular_opportunities) ==
       (IF ~shopping_patterns.second_hand_preference
           /\ local_infrastructure.second_hand_stores \in {"good", "excellent"}
        THEN << [action |-> "Adopt 50% second-hand shopping rule",
                 impact |-> "Reduce shopping emissions by 40-60%",
                 cost_impact |-> "Significant cost savings",
                 priority |-> "high",
                 co2_reduction |-> "0.3-0.8 tons/year"] >>
        ELSE << >>)
    \o (IF shopping_patterns.fast_fashion \/ shopping_patterns.shopping_frequency = "daily"
        THEN << [action |-> "Buy fewer, higher-quality items",
                 impact |-> "Reduce consumption emissions by 50-70%",
                 cost_impact |-> "Higher per-item cost, lower total spending",
                 priority |-> "high",
                 co2_reduction |-> "0.5-1.2 tons/year"] >>
        ELSE << >>)
    \o (IF local_infrastructure.repair_services \in {"good", "excellent"}
        THEN << [action |-> "Repair instead of replace when possible",
                 impact |-> "Extend product lifespan by 2-5x",
                 cost_impact |-> "Lower long-term costs",
                 priority |-> "medium",
                 co2_reduction |-> "0.2-0.6 tons/year"] >>
        ELSE << >>)
    \o (IF shopping_patterns.electronics_upgrade_cycle = "1-2 years"
        THEN << [action |-> "Extend electronics lifespan to 4-6 years",
                 impact |-> "Reduce electronics emissions by 60-80%",
                 cost_impact |-> "Major cost savings",
                 priority |-> "high",
                 co2_reduction |-> "0.4-1.0 tons/year"] >>
        ELSE << >>)
    \o (IF circular_opportunities.sharing_potential \in {"medium", "high"}
        THEN << [action |-> "Use sharing services for occasional-use items",
                 impact |-> "Reduce ownership-based emissions by 30-50%",
                 cost_impact |-> "Lower costs for occasional use",
                 priority |-> "medium",
                 co2_reduction |-> "0.1-0.4 tons/year"] >>
        ELSE << >>)

calculate_shopping_efficiency(shopping_patterns) ==
    LET frequency == shopping_patterns.shopping_frequency
        cycle == shopping_patterns.electronics_upgrade_cycle
    IN  ClampUnit(50
                  + (IF shopping_patterns.second_hand_preference THEN 30 ELSE 0)
                  + (IF frequency = "monthly" THEN 20
                     ELSE IF frequency = "daily" THEN -30 ELSE 0)
                  - (IF shopping_patterns.fast_fashion THEN 40 ELSE 0)
                  - (IF shopping_patterns.luxury_purchases THEN 20 ELSE 0)
                  + (IF cycle = "1-2 years" THEN -30
                     ELSE IF cycle = "5+ years" THEN 20 ELSE 0))

shopping_key_findings(shopping_patterns, carbon_footprint) ==
       (IF carbon_footprint > 150
        THEN << "High consumption-based emissions detected" >> ELSE << >>)
    \o (IF shopping_patterns.fast_fashion
        THEN << "Fast fashion habits significantly increase carbon impact" >> ELSE << >>)
    \o (IF shopping_patterns.electronics_upgrade_cycle = "1-2 years"
        THEN << "Frequent electronics upgrades are major emission source" >> ELSE << >>)
    \o (IF shopping_patterns.luxury_purchases /\ ~shopping_patterns.second_hand_preference
        THEN << "Luxury consumption without circular practices" >> ELSE << >>)
    \o (IF shopping_patterns.second_hand_preference
        THEN << "Excellent circular economy practices already in place" >> ELSE << >>)

\* ShoppingExpertAgent.analyze(user_input, location)
shopping_analyze(user_input, location) ==
    LET shopping_patterns == analyze_shopping_patterns(user_input)
        local_infrastructure == get_local_shopping_data(location)
        carbon_footprint == calculate_shopping_carbon_footprint(shopping_patterns)
        circular_opportunities == analyze_circular_economy_potential(shopping_patterns)
    IN  [agent_id |-> "shopping_ninja_004",
         carbon_footprint |-> carbon_footprint,
         shopping_patterns |-> shopping_patterns,
         local_infrastructure |-> local_infrastructure,
         circular_opportunities |-> circular_opportunities,
         recommendations |->
            generate_shopping_recommendations(shopping_patterns, local_infrastructure,
                                              circular_opportunities),
         efficiency_score |-> calculate_shopping_efficiency(shopping_patterns),
         key_findings |-> shopping_key_findings(shopping_patterns, carbon_footprint)]

-----------------------------------------------------------------------------
(* agents/synthesizer.py                                                    *)

\* SynthesizerAgent.domain_weights, in hundredths
domain_weights == [home |-> 25, transport |-> 35, diet |-> 25, shopping |-> 15]

\* the domains of agent_analyses in dict order
AnalysesOrder(agent_analyses) ==
    SelectSeq(DomainOrder, LAMBDA d : d \in DOMAIN agent_analyses)

\* round(sum of carbon_footprint, 2), in hundredths
calculate_total_footprint(agent_analyses) ==
    LET order == AnalysesOrder(agent_analyses)
    IN  SumSeq([i \in 1..Len(order) |->
                   Get(agent_analyses[order[i]], "carbon_footprint", 0)])

assess_improvement_potential(analysis) ==
    LET efficiency == Get(analysis, "efficiency_score", 50)
        carbon_footprint == Get(analysis, "carbon_footprint", 0)
    IN  IF efficiency < 30 \/ carbon_footprint > 500 THEN "high"
        ELSE IF efficiency < 60 \/ carbon_footprint > 200 THEN "medium"
        ELSE "low"

get_domain_breakdown(agent_analyses) ==
    [d \in DOMAIN agent_analyses |->
        [carbon_footprint |-> Get(agent_analyses[d], "carbon_footprint", 0),
         efficiency_score |-> Get(agent_analyses[d], "efficiency_score", 50),
         key_findings |-> Get(agent_analyses[d], "key_findings", << >>),
         improvement_potential |-> assess_improvement_potential(agent_analyses[d])]]

\* synergy_multiplier is in tenths
identify_synergies(agent_analyses) ==
    LET home == Get(agent_analyses, "home", EmptyDict)
        transport == Get(agent_analyses, "transport", EmptyDict)
        diet == Get(agent_analyses, "diet", EmptyDict)
        shopping == Get(agent_analyses, "shopping", EmptyDict)
        home_renewable ==
            Get(Get(home, "energy_patterns", EmptyDict), "renewable_energy", FALSE)
        transport_type ==
            Get(Get(transport, "transport_patterns", EmptyDict), "primary_vehicle", "sedan")
        diet_local ==
            Get(Get(diet, "dietary_patterns", EmptyDict), "organic_preference", FALSE)
        shopping_second_hand ==
            Get(Get(shopping, "shopping_patterns", EmptyDict), "second_hand_preference", FALSE)
        transport_efficiency == Get(transport, "efficiency_score", 50)
        shopping_frequency ==
            Get(Get(shopping, "shopping_patterns", EmptyDict), "shopping_frequency", "weekly")
    IN  (IF ~home_renewable /\ transport_type \in {"sedan", "suv", "luxury_car"}
         THEN << [type |-> "home_transport_ev_solar",
                  domains |-> << "home", "transport" >>,
                  description |-> "Solar panels + Electric vehicle combo",
                  synergy_multiplier |-> 15,
                  combined_impact |-> "Reduce both home and transport emissions by 80%+",
                  implementation_order |-> << "home_solar", "transport_ev" >>] >>
         ELSE << >>)
     \o (IF ~diet_local \/ ~shopping_second_hand
         THEN << [type |-> "diet_shopping_local_circular",
                  domains |-> << "diet", "shopping" >>,
                  description |-> "Local food sourcing + Circular economy practices",
                  synergy_multiplier |-> 13,
                  combined_impact |-> "Reduce supply chain emissions across consumption",
                  implementation_order |-> << "local_food", "circular_shopping" >>] >>
         ELSE << >>)
     \o (IF transport_efficiency < 60 /\ shopping_frequency = "daily"
         THEN << [type |-> "transport_shopping_consolidation",
                  domains |-> << "transport", "shopping" >>,
                  description |-> "Consolidated shopping trips + Alternative transport",
                  synergy_multiplier |-> 14,
                  combined_impact |-> "Reduce transport needs and optimize shopping patterns",
                  implementation_order |-> << "consolidate_shopping", "alternative_transport" >>] >>
         ELSE << >>)

\* a variant that takes the lowered cost text itself for the feasibility
FeasibilityAsCost(recommendation) ==
    Lower(Get(recommendation, "cost_impact", "Medium"))

assess_feasibility(recommendation) ==
    LET cost == Lower(Get(recommendation, "cost_impact", "Medium"))
    IN  IF Contains("low", cost) \/ Contains("savings", cost) THEN "high"
        ELSE IF Contains("medium", cost) THEN "medium"
        ELSE "low"

assess_urgency(analysis, recommendation) ==
    LET carbon_footprint == Get(analysis, "carbon_footprint", 0)
        priority == Get(recommendation, "priority", "medium")
    IN  IF carbon_footprint > 500 /\ priority = "high" THEN "critical"
        ELSE IF carbon_footprint > 200 \/ priority = "high" THEN "high"
        ELSE "medium"

\* The source computes (priority*0.4 + feasibility*0.3 + urgency*0.3) *
\* synergy_multiplier in double precision, and the sort compares the doubles.
\* For the values the score tables and the synergy multipliers 1.0, 1.5, 1.3
\* and 1.4 allow, the double differs from the double nearest to the exact
\* value by one unit in the last place upwards (RoundedUp), one downwards
\* (RoundedDown) or two downwards (RoundedDownTwice), and not at all
\* otherwise.  The entries are << priority, feasibility, urgency,
\* synergy_multiplier in tenths >>.
RoundedUp ==
    { << 5, 2, 2, 15 >>, << 4, 3, 4, 15 >>, << 4, 3, 4, 13 >>,
      << 4, 2, 4, 10 >>, << 4, 2, 4, 15 >>, << 4, 2, 4, 13 >>,
      << 4, 2, 2, 10 >>, << 4, 2, 2, 13 >>, << 4, 1, 1, 15 >>,
      << 4, 1, 1, 13 >>, << 3, 3, 3, 13 >>, << 3, 3, 2, 15 >>,
      << 3, 3, 2, 13 >>, << 3, 2, 4, 13 >>, << 3, 2, 3, 15 >>,
      << 3, 2, 3, 13 >>, << 3, 2, 2, 10 >>, << 3, 2, 2, 15 >>,
      << 3, 2, 2, 13 >>, << 3, 2, 2, 14 >>, << 3, 2, 1, 15 >>,
      << 3, 2, 1, 13 >>, << 3, 1, 4, 15 >>, << 3, 1, 4, 13 >>,
      << 3, 1, 3, 10 >>, << 3, 1, 3, 15 >>, << 3, 1, 3, 13 >>,
      << 3, 1, 3, 14 >>, << 3, 1, 2, 15 >>, << 3, 1, 2, 13 >>,
      << 3, 1, 1, 10 >>, << 3, 1, 1, 13 >>, << 2, 1, 2, 10 >>,
      << 2, 1, 2, 15 >>, << 2, 1, 2, 13 >>, << 2, 1, 1, 10 >>,
      << 2, 1, 1, 13 >> }

RoundedDown ==
    { << 5, 3, 4, 15 >>, << 5, 3, 4, 14 >>, << 5, 3, 3, 15 >>,
      << 5, 3, 3, 13 >>, << 5, 3, 3, 14 >>, << 5, 3, 2, 14 >>,
      << 5, 3, 1, 10 >>, << 5, 3, 1, 14 >>, << 5, 2, 4, 15 >>,
      << 5, 2, 4, 13 >>, << 5, 2, 4, 14 >>, << 5, 2, 3, 14 >>,
      << 5, 2, 2, 14 >>, << 5, 1, 4, 14 >>, << 5, 1, 3, 10 >>,
      << 5, 1, 3, 14 >>, << 5, 1, 1, 10 >>, << 5, 1, 1, 15 >>,
      << 5, 1, 1, 13 >>, << 4, 3, 1, 15 >>, << 4, 3, 1, 13 >>,
      << 4, 3, 1, 14 >>, << 4, 1, 3, 15 >>, << 4, 1, 3, 13 >>,
      << 4, 1, 3, 14 >>, << 3, 3, 4, 15 >>, << 3, 3, 4, 14 >>,
      << 3, 3, 3, 14 >>, << 3, 3, 1, 15 >>, << 3, 2, 4, 14 >>,
      << 2, 3, 3, 10 >>, << 2, 3, 3, 15 >>, << 2, 3, 3, 13 >>,
      << 2, 3, 2, 15 >>, << 2, 3, 2, 13 >>, << 2, 3, 2, 14 >>,
      << 2, 2, 4, 10 >>, << 2, 2, 4, 15 >>, << 2, 2, 4, 13 >>,
      << 2, 2, 3, 15 >>, << 2, 2, 3, 13 >>, << 2, 2, 3, 14 >>,
      << 2, 1, 4, 15 >>, << 2, 1, 4, 13 >>, << 2, 1, 4, 14 >> }

RoundedDownTwice ==
    { << 5, 1, 1, 14 >>, << 2, 3, 3, 14 >>, << 2, 2, 4, 14 >> }

FloatError(terms) ==
    IF terms \in RoundedUp THEN 1
    ELSE IF terms \in RoundedDown THEN -1
    ELSE IF terms \in RoundedDownTwice THEN -2
    ELSE 0

\* the score tables' values for an intervention, and its synergy multiplier
priority_terms(intervention) ==
    LET priority_scores == [critical |-> 5, high |-> 4, medium |-> 3, low |-> 2]
        feasibility_scores == [high |-> 3, medium |-> 2, low |-> 1]
        urgency_scores == [critical |-> 4, high |-> 3, medium |-> 2, low |-> 1]
    IN  << Get(priority_scores, Get(intervention, "priority", "medium"), 3),
           Get(feasibility_scores, Get(intervention, "feasibility", "medium"), 2),
           Get(urgency_scores, Get(intervention, "urgency", "medium"), 2),
           Get(intervention, "synergy_multiplier", 10) >>

\* the exact value of the score, x100
ExactScore(terms) == (terms[1] * 4 + terms[2] * 3 + terms[3] * 3) * terms[4]

\* a variant that leaves the synergy bonus out of the score
ScoreWithoutBonus(intervention) ==
    LET terms == priority_terms(intervention)
    IN  8 * ExactScore(<< terms[1], terms[2], terms[3], 10 >>)
          + FloatError(<< terms[1], terms[2], terms[3], 10 >>)

\* _calculate_priority_score: a number that orders as the doubles do, eight
\* times the exact score x100 plus the double's deviation in units in the
\* last place
calculate_priority_score(intervention) ==
    LET terms == priority_terms(intervention)
    IN  8 * ExactScore(terms) + FloatError(terms)

\* the interventions of one domain's recommendations
DomainInterventions(domain, analysis) ==
    LET recommendations == Get(analysis, "recommendations", << >>)
    IN  [i \in 1..Len(recommendations) |->
            [domain |-> domain,
             action |-> Get(recommendations[i], "action", ""),
             impact |-> Get(recommendations[i], "impact", ""),
             priority |-> Get(recommendations[i], "priority", "medium"),
             co2_reduction |-> Get(recommendations[i], "co2_reduction", "0.5 tons/year"),
             cost_impact |-> Get(recommendations[i], "cost_impact", "Medium"),
             feasibility |-> assess_feasibility(recommendations[i]),
             urgency |-> assess_urgency(analysis, recommendations[i])]]

\* a synergy entered with the priority a recommendation gets by default (a
\* faulty variant of SynergyIntervention)
DefaultPriorityIntervention(synergy) ==
    [domain |-> "cross_domain",
     action |-> synergy.description,
     impact |-> synergy.combined_impact,
     priority |-> "medium",
     co2_reduction |-> "5-15 tons/year",
     cost_impact |-> "High initial, excellent ROI",
     feasibility |-> "medium",
     urgency |-> "high",
     synergy_multiplier |-> synergy.synergy_multiplier]

SynergyIntervention(synergy) ==
    [domain |-> "cross_domain",
     action |-> synergy.description,
     impact |-> synergy.combined_impact,
     priority |-> "high",
     co2_reduction |-> "5-15 tons/year",
     cost_impact |-> "High initial, excellent ROI",
     feasibility |-> "medium",
     urgency |-> "high",
     synergy_multiplier |-> synergy.synergy_multiplier]

RECURSIVE Flatten(_)
Flatten(ss) == IF ss = << >> THEN << >> ELSE Head(ss) \o Flatten(Tail(ss))

\* all_interventions of _prioritize_interventions, in discovery order
all_interventions(agent_analyses, synergies) ==
    LET order == AnalysesOrder(agent_analyses)
    IN  Flatten([i \in 1..Len(order) |->
                    DomainInterventions(order[i], agent_analyses[order[i]])])
        \o [i \in 1..Len(synergies) |-> SynergyIntervention(synergies[i])]

\* the number of interventions the synthesizer keeps
TopInterventions(prioritized) == Take(prioritized, 8)

prioritize_interventions(agent_analyses, synergies) ==
    TopInterventions(
        SortedDesc(all_interventions(agent_analyses, synergies), calculate_priority_score))

\* timeline_map of _analyze_potential_impact
timeline_map ==
    [critical |-> "0-3 months", high |-> "3-6 months",
     medium |-> "6-12 months", low |-> "12+ months"]

\* total_potential_reduction is round(sum, 1), kept in hundredths
analyze_potential_impact(prioritized_actions) ==
    LET reductions ==
            [i \in 1..Len(prioritized_actions) |->
                LastNumber(Get(prioritized_actions[i], "co2_reduction", "0.5 tons/year"), 0)]
        texts == {prioritized_actions[i].action : i \in 1..Len(prioritized_actions)}
        LastIndex(t) ==
            CHOOSE i \in 1..Len(prioritized_actions) :
                /\ prioritized_actions[i].action = t
                /\ \A j \in 1..Len(prioritized_actions) :
                       prioritized_actions[j].action = t => j <= i
    IN  [total_potential_reduction |-> RoundDiv(SumSeq(reductions), 10) * 10,
         implementation_timeline |->
            [t \in texts |->
                Get(timeline_map,
                    Get(prioritized_actions[LastIndex(t)], "urgency", "medium"),
                    "6-12 months")],
         quick_wins |->
            Take(Filter(prioritized_actions,
                        LAMBDA a : Get(a, "feasibility", NoneStr) = "high"), 3),
         high_impact_projects |->
            Take(Filter(prioritized_actions,
                        LAMBDA a : Contains("high", Get(a, "co2_reduction", ""))), 3)]

create_integrated_plan(prioritized_actions, synergies) ==
    LET urgency(a) == Get(a, "urgency", "medium")
        feasibility(a) == Get(a, "feasibility", "medium")
        immediate(a) == urgency(a) \in {"critical", "high"} /\ feasibility(a) = "high"
        short(a) == ~immediate(a) /\ urgency(a) \in {"high", "medium"}
    IN  [phase_1_immediate |-> Filter(prioritized_actions, immediate),
         phase_2_short_term |-> Filter(prioritized_actions, short),
         phase_3_long_term |->
            Filter(prioritized_actions, LAMBDA a : ~immediate(a) /\ ~short(a)),
         synergy_clusters |->
            [i \in 1..Len(synergies) |->
                [synergy_type |-> synergies[i].type,
                 description |-> synergies[i].description,
                 domains |-> synergies[i].domains,
                 implementation_order |-> synergies[i].implementation_order,
                 combined_impact |-> synergies[i].combined_impact]]]

\* global_average_footprint of _calculate_eco_score, in hundredths of a ton
global_average_footprint == 480

\* footprint_score = max(0, 100 - total_footprint / 4.8 * 50), as a fraction
\* over the denominator 2 * global_average_footprint
FootprintScoreNum(total_footprint) ==
    Max(0, 100 * 2 * global_average_footprint - total_footprint * 100)

\* sum over the domains of efficiency * weight * 100, in ten-thousandths
EfficiencySum(agent_analyses) ==
    LET order == AnalysesOrder(agent_analyses)
    IN  SumSeq([i \in 1..Len(order) |->
                   Get(agent_analyses[order[i]], "efficiency_score", 50)
                 * Get(domain_weights, order[i], 25)])

\* eco_score = avg_efficiency_score * 0.6 + footprint_score * 0.4, before
\* clamping and rounding, as the numerator of a fraction over EcoDen, in tenths
EcoDen == 100 * 2 * global_average_footprint

EcoNum(agent_analyses, total_footprint) ==
    6 * EfficiencySum(agent_analyses) * (2 * global_average_footprint)
  + 4 * FootprintScoreNum(total_footprint) * 100

\* round(min(100, max(0, eco_score)), 1), in tenths
calculate_eco_score(agent_analyses, total_footprint) ==
    Min(1000, Max(0, RoundDiv(EcoNum(agent_analyses, total_footprint), EcoDen)))

\* round((completeness + consistency + findings) / 3, 2), in hundredths, where
\* consistency = 1 - np.std(efficiency_scores) (population standard deviation).
\* With e the efficiencies in hundredths and n their number,
\* std = sqrt(n*sum(e^2) - sum(e)^2) / (100 n); the rounding is decided exactly
\* by comparing squares.
calculate_synthesis_confidence(agent_analyses) ==
    LET order == AnalysesOrder(agent_analyses)
        n == Len(order)
        complete ==
            Count(order, LAMBDA d : Get(agent_analyses[d], "carbon_footprint", 0) > 0)
        findings ==
            Count(order, LAMBDA d : Get(agent_analyses[d], "key_findings", << >>) # << >>)
        e == [i \in 1..n |-> Get(agent_analyses[order[i]], "efficiency_score", 50)]
        D == IF n > 1
             THEN n * SumSeq([i \in 1..n |-> e[i] * e[i]]) - SumSeq(e) * SumSeq(e)
             ELSE 0
        m == IF n > 1 THEN n ELSE 1
        \* the mean is (m*B - sqrt(D)) / (3 m) hundredths
        B == 25 * complete + 25 * findings + 100
        AtLeast(k) ==
            LET R == 2 * m * B - 6 * m * k + 3 * m
            IN  R >= 0 /\ 4 * D <= R * R
    IN  CHOOSE k \in -1..101 : AtLeast(k) /\ ~AtLeast(k + 1)

synthesize(agent_analyses) ==
    LET total_footprint == calculate_total_footprint(agent_analyses)
        synergies == identify_synergies(agent_analyses)
        prioritized_actions == prioritize_interventions(agent_analyses, synergies)
    IN  [agent_id |-> "synthesizer_master_005",
         total_carbon_footprint |-> total_footprint,
         domain_breakdown |-> get_domain_breakdown(agent_analyses),
         synergies |-> synergies,
         prioritized_actions |-> prioritized_actions,
         impact_analysis |-> analyze_potential_impact(prioritized_actions),
         integrated_plan |-> create_integrated_plan(prioritized_actions, synergies),
         eco_score |-> calculate_eco_score(agent_analyses, total_footprint),
         synthesis_confidence |-> calculate_synthesis_confidence(agent_analyses)]

-----------------------------------------------------------------------------
(* agents/refiner_loop.py                                                   *)
(*                                                                          *)
(* A quality assessment is kept exact: each of the five metrics is the      *)
(* numerator of a fraction over the assessment's den (10 * number of        *)
(* actions, or 10 for an empty plan).                                       *)

\* {**d, k: v}
With(d, k, v) == [x \in (DOMAIN d) \cup {k} |-> IF x = k THEN v ELSE d[x]]

QualityMetrics ==
    << "feasibility_score", "impact_score", "cost_effectiveness",
       "implementation_clarity", "user_alignment" >>

assess_plan_quality(synthesis) ==
    LET prioritized_actions == Get(synthesis, "prioritized_actions", << >>)
        n == Len(prioritized_actions)
        feasibility_scores == [high |-> 10, medium |-> 6, low |-> 3]
        feasibilities ==
            [i \in 1..n |->
                Get(feasibility_scores,
                    Get(prioritized_actions[i], "feasibility", "medium"), 6)]
        high_impact_count ==
            Count(prioritized_actions,
                  LAMBDA a : Contains("high", Get(a, "co2_reduction", "")))
        cost_effective_count ==
            Count(prioritized_actions,
                  LAMBDA a : \/ Contains("savings", Lower(Get(a, "cost_impact", "")))
                             \/ Contains("low", Lower(Get(a, "cost_impact", ""))))
        clear_actions ==
            Count(prioritized_actions, LAMBDA a : Len(Get(a, "action", "")) > 20)
        balanced_actions ==
            Count(prioritized_actions,
                  LAMBDA a : /\ Get(a, "feasibility", NoneStr) = "high"
                             /\ Get(a, "urgency", NoneStr) # "low")
    IN  IF n = 0
        THEN [den |-> 10, feasibility_score |-> 0, impact_score |-> 0,
              cost_effectiveness |-> 0, implementation_clarity |-> 0,
              user_alignment |-> 0]
        ELSE [den |-> 10 * n,
              feasibility_score |-> SumSeq(feasibilities),
              impact_score |-> Min(10 * n, 10 * high_impact_count),
              cost_effectiveness |-> 10 * cost_effective_count,
              implementation_clarity |-> 10 * clear_actions,
              user_alignment |-> 10 * balanced_actions]

find_low_feasibility_actions(synthesis) ==
    Filter(Get(synthesis, "prioritized_actions", << >>),
           LAMBDA a : Get(a, "feasibility", NoneStr) = "low")

find_high_cost_actions(synthesis) ==
    Filter(Get(synthesis, "prioritized_actions", << >>),
           LAMBDA a : Contains("high", Lower(Get(a, "cost_impact", ""))))

find_low_impact_actions(synthesis) ==
    Filter(Get(synthesis, "prioritized_actions", << >>),
           LAMBDA a : ~HasDigit(Get(a, "co2_reduction", "")))

\* the opportunity types of all previous refinements, in order of occurrence
IssueOccurrences(previous_refinements) ==
    Flatten([i \in 1..Len(previous_refinements) |->
        LET opportunities ==
                Get(previous_refinements[i], "refinement_opportunities", << >>)
        IN  [j \in 1..Len(opportunities) |-> Get(opportunities[j], "type", "unknown")]])

\* the types counted more than once, in the order of their first occurrence
identify_recurring_issues(previous_refinements) ==
    LET occ == IssueOccurrences(previous_refinements)
        first == SelectSeq([i \in 1..Len(occ) |-> [i |-> i, t |-> occ[i]]],
                           LAMBDA p : \A j \in 1..(p.i - 1) : occ[j] # p.t)
        issue_counts(t) == Cardinality({i \in 1..Len(occ) : occ[i] = t})
        recurring == SelectSeq(first, LAMBDA p : issue_counts(p.t) > 1)
    IN  [i \in 1..Len(recurring) |-> recurring[i].t]

\* opportunities found with the thresholds included: a metric that equals its
\* threshold is refined as well (a faulty variant of
\* identify_refinement_opportunities)
InclusiveThresholds(synthesis, previous_refinements, quality_assessment) ==
    LET q == quality_assessment
        Opportunity(type, description, target_actions, strategy) ==
            << [type |-> type, description |-> description,
                target_actions |-> target_actions, refinement_strategy |-> strategy] >>
        recurring_issues ==
            IF previous_refinements # << >>
            THEN identify_recurring_issues(previous_refinements)
            ELSE << >>
    IN  (IF 10 * q.feasibility_score <= 7 * q.den
         THEN Opportunity("feasibility_improvement",
                          "Increase feasibility by breaking down complex actions",
                          find_low_feasibility_actions(synthesis),
                          "decomposition_and_phasing")
         ELSE << >>)
     \o (IF 10 * q.cost_effectiveness <= 6 * q.den
         THEN Opportunity("cost_optimization",
                          "Prioritize cost-effective interventions",
                          find_high_cost_actions(synthesis),
                          "cost_benefit_reordering")
         ELSE << >>)
     \o (IF 10 * q.implementation_clarity <= 8 * q.den
         THEN Opportunity("sequencing_optimization",
                          "Improve implementation sequencing and dependencies",
                          Get(synthesis, "prioritized_actions", << >>),
                          "dependency_analysis")
         ELSE << >>)
     \o (IF 10 * q.impact_score <= 5 * q.den
         THEN Opportunity("impact_maximization",
                          "Focus on highest-impact interventions first",
                          find_low_impact_actions(synthesis),
                          "impact_prioritization")
         ELSE << >>)
     \o [i \in 1..Len(recurring_issues) |->
            [type |-> "recurring_issue_resolution",
             description |-> "Address recurring issue: " \o recurring_issues[i],
             target_actions |-> << >>,
             refinement_strategy |-> "adaptive_learning"]]

identify_refinement_opportunities(synthesis, previous_refinements, quality_assessment) ==
    LET q == quality_assessment
        recurring_issues ==
            IF previous_refinements # << >>
            THEN identify_recurring_issues(previous_refinements)
            ELSE << >>
    IN  (IF 10 * q.feasibility_score < 7 * q.den
         THEN << [type |-> "feasibility_improvement",
                  description |-> "Increase feasibility by breaking down complex actions",
                  target_actions |-> find_low_feasibility_actions(synthesis),
                  refinement_strategy |-> "decomposition_and_phasing"] >>
         ELSE << >>)
     \o (IF 10 * q.cost_effectiveness < 6 * q.den
         THEN << [type |-> "cost_optimization",
                  description |-> "Prioritize cost-effective interventions",
                  target_actions |-> find_high_cost_actions(synthesis),
                  refinement_strategy |-> "cost_benefit_reordering"] >>
         ELSE << >>)
     \o (IF 10 * q.implementation_clarity < 8 * q.den
         THEN << [type |-> "sequencing_optimization",
                  description |-> "Improve implementation sequencing and dependencies",
                  target_actions |-> Get(synthesis, "prioritized_actions", << >>),
                  refinement_strategy |-> "dependency_analysis"] >>
         ELSE << >>)
     \o (IF 10 * q.impact_score < 5 * q.den
         THEN << [type |-> "impact_maximization",
                  description |-> "Focus on highest-impact interventions first",
                  target_actions |-> find_low_impact_actions(synthesis),
                  refinement_strategy |-> "impact_prioritization"] >>
         ELSE << >>)
     \o [i \in 1..Len(recurring_issues) |->
            [type |-> "recurring_issue_resolution",
             description |-> "Address recurring issue: " \o recurring_issues[i],
             target_actions |-> << >>,
             refinement_strategy |-> "adaptive_learning"]]

\* every action split into planning and execution, whatever its text (a
\* faulty variant of decompose_action)
PlanAndExecute(action) ==
    LET main_action == Get(action, "action", "")
    IN  << With(With(action, "action", "Plan: " \o main_action), "feasibility", "high"),
           With(With(action, "action", "Execute: " \o main_action), "feasibility",
                Get(action, "feasibility", "medium")) >>

decompose_action(action) ==
    LET main_action == Get(action, "action", "")
        Sub(text, feasibility) == With(With(action, "action", text), "feasibility", feasibility)
    IN  IF Contains("solar panels", Lower(main_action))
        THEN << Sub("Get solar panel quotes and assessments", "high"),
                Sub("Apply for solar installation permits", "high"),
                Sub("Install solar panel system", "medium") >>
        ELSE IF Contains("electric vehicle", Lower(main_action))
        THEN << Sub("Research EV models and test drive", "high"),
                Sub("Install home charging station", "medium"),
                Sub("Purchase electric vehicle", "medium") >>
        ELSE << Sub("Plan: " \o main_action, "high"),
                Sub("Execute: " \o main_action, Get(action, "feasibility", "medium")) >>

apply_decomposition_refinement(plan, opportunity) ==
    LET target_actions == Get(opportunity, "target_actions", << >>)
        actions == Get(plan, "prioritized_actions", << >>)
    IN  With(plan, "prioritized_actions",
             Flatten([i \in 1..Len(actions) |->
                        IF InList(actions[i], target_actions)
                        THEN decompose_action(actions[i])
                        ELSE << actions[i] >>]))

\* cost_score * impact_score, the impact in hundredths
cost_effectiveness_score(action) ==
    LET cost == Lower(Get(action, "cost_impact", "medium"))
        cost_score ==
            IF Contains("low", cost) THEN 3
            ELSE IF Contains("medium", cost) THEN 2
            ELSE IF Contains("high", cost) THEN 1
            ELSE IF Contains("savings", cost) THEN 4
            ELSE 2
    IN  cost_score * LastNumber(Get(action, "co2_reduction", "0.5"), 100)

apply_cost_optimization_refinement(plan, opportunity) ==
    With(plan, "prioritized_actions",
         SortedDesc(Get(plan, "prioritized_actions", << >>), cost_effectiveness_score))

apply_sequencing_refinement(plan, opportunity) ==
    LET actions == Get(plan, "prioritized_actions", << >>)
        text(a) == Lower(Get(a, "action", ""))
        foundation_keywords == {"insulation", "led", "thermostat", "bike", "walk"}
        major_keywords == {"solar", "electric vehicle", "heat pump", "ev"}
        lifestyle_keywords == {"meat", "diet", "shopping", "local", "second"}
        foundation_actions == Filter(actions, LAMBDA a : ContainsAny(foundation_keywords, text(a)))
        major_actions == Filter(actions, LAMBDA a : ContainsAny(major_keywords, text(a)))
        lifestyle_actions == Filter(actions, LAMBDA a : ContainsAny(lifestyle_keywords, text(a)))
        bucketed == foundation_actions \o major_actions \o lifestyle_actions
        other_actions == Filter(actions, LAMBDA a : ~InList(a, bucketed))
    IN  With(plan, "prioritized_actions", bucketed \o other_actions)

\* the number of actions the impact refinement keeps
TopImpact(sorted_actions) == Take(sorted_actions, 6)

impact_score(action) == LastNumber(Get(action, "co2_reduction", "0.5"), 50)

apply_impact_refinement(plan, opportunity) ==
    With(plan, "prioritized_actions",
         TopImpact(SortedDesc(Get(plan, "prioritized_actions", << >>), impact_score)))

generate_implementation_tips(action) ==
    LET action_text == Lower(Get(action, "action", ""))
    IN  IF Contains("solar", action_text)
        THEN << "Get multiple quotes from certified installers",
                "Check local incentives and tax credits",
                "Ensure roof condition is suitable for installation" >>
        ELSE IF Contains("electric", action_text)
        THEN << "Test drive multiple EV models",
                "Plan charging infrastructure first",
                "Consider total cost of ownership" >>
        ELSE IF Contains("diet", action_text) \/ Contains("meat", action_text)
        THEN << "Start with one plant-based day per week",
                "Find tasty plant-based recipes",
                "Ensure nutritional balance" >>
        ELSE << "Start with small, manageable steps",
                "Track progress regularly",
                "Celebrate small wins" >>

\* the lists of a synthesis, besides prioritized_actions, that hold the dicts
\* of its actions (_analyze_potential_impact, _create_integrated_plan)
ImpactLists == {"quick_wins", "high_impact_projects"}

PhaseLists == {"phase_1_immediate", "phase_2_short_term", "phase_3_long_term"}

\* a plan after an in-place change of action dicts: every list of the plan
\* that holds action dicts, with the change made to each dict
WithSharedActions(plan, change(_)) ==
    LET list(actions) == [i \in 1..Len(actions) |-> change(actions[i])]
        inner(entry, lists) ==
            [k \in DOMAIN entry |-> IF k \in lists THEN list(entry[k]) ELSE entry[k]]
    IN  [key \in DOMAIN plan |->
            IF key = "prioritized_actions" THEN list(plan[key])
            ELSE IF key = "impact_analysis" THEN inner(plan[key], ImpactLists)
            ELSE IF key = "integrated_plan" THEN inner(plan[key], PhaseLists)
            ELSE plan[key]]

\* the action with the tips the learning refinement gives it
with_implementation_tips(action) ==
    IF Get(action, "implementation_tips", << >>) = << >>
    THEN With(action, "implementation_tips", generate_implementation_tips(action))
    ELSE action

\* the dicts of the plan's actions are extended in place, so the other lists
\* of the plan that hold one of them show it extended too
apply_learning_refinement(plan, opportunity) ==
    LET actions == Get(plan, "prioritized_actions", << >>)
        learned(action) ==
            IF InList(action, actions) THEN with_implementation_tips(action) ELSE action
    IN  With(WithSharedActions(plan, learned), "prioritized_actions",
             [i \in 1..Len(actions) |-> with_implementation_tips(actions[i])])

ApplyStrategy(plan, opportunity) ==
    LET strategy == Get(opportunity, "refinement_strategy", "")
    IN  CASE strategy = "decomposition_and_phasing" ->
                apply_decomposition_refinement(plan, opportunity)
          [] strategy = "cost_benefit_reordering" ->
                apply_cost_optimization_refinement(plan, opportunity)
          [] strategy = "dependency_analysis" ->
                apply_sequencing_refinement(plan, opportunity)
          [] strategy = "impact_prioritization" ->
                apply_impact_refinement(plan, opportunity)
          [] strategy = "adaptive_learning" ->
                apply_learning_refinement(plan, opportunity)
          [] OTHER -> plan

\* the plan after the first k opportunities have been applied
RECURSIVE ApplyFirst(_, _, _)
ApplyFirst(plan, opportunities, k) ==
    IF k = 0 THEN plan
    ELSE ApplyStrategy(ApplyFirst(plan, opportunities, k - 1), opportunities[k])

\* the opportunities applied last to first, each on the output of the one
\* discovered after it (a faulty variant of apply_refinements)
RECURSIVE ApplyFrom(_, _, _)
ApplyFrom(plan, opportunities, k) ==
    IF k > Len(opportunities) THEN plan
    ELSE ApplyStrategy(ApplyFrom(plan, opportunities, k + 1), opportunities[k])

AppliedInReverse(synthesis, refinement_opportunities) ==
    ApplyFrom(synthesis, refinement_opportunities, 1)

apply_refinements(synthesis, refinement_opportunities) ==
    ApplyFirst(synthesis, refinement_opportunities, Len(refinement_opportunities))

\* a Python float kept exact, as a fraction num / den with den > 0
Frac(num, den) == [num |-> num, den |-> den]
FracGT(x, a, b) == x.num * b > a * x.den        \* x > a / b   (b > 0)
FracLE(x, a, b) == x.num * b <= a * x.den       \* x <= a / b  (b > 0)

\* a validation that also passes a plan that did not change in quality (a
\* faulty variant of ValidationPassed)
NotWorse(overall_improvement) == overall_improvement.num >= 0

\* "validation_passed": overall_improvement > 0
ValidationPassed(overall_improvement) == FracGT(overall_improvement, 0, 1)

validate_improvements(original, refined) ==
    LET original_quality == assess_plan_quality(original)
        refined_quality == assess_plan_quality(refined)
        den == original_quality.den * refined_quality.den
        diff(m) == refined_quality[m] * original_quality.den
                 - original_quality[m] * refined_quality.den
        metrics == {QualityMetrics[i] : i \in 1..Len(QualityMetrics)}
        improvements ==
            [m \in metrics |->
                [original |-> Frac(original_quality[m], original_quality.den),
                 refined |-> Frac(refined_quality[m], refined_quality.den),
                 improvement |-> Frac(diff(m), den),
                 improved |-> diff(m) > 0]]
        total == SumSeq([i \in 1..Len(QualityMetrics) |->
                            improvements[QualityMetrics[i]].improvement.num])
        overall_improvement == Frac(total, den * Len(QualityMetrics))
    IN  [metric_improvements |-> improvements,
         overall_improvement |-> overall_improvement,
         validation_passed |-> ValidationPassed(overall_improvement),
         significant_improvement |-> FracGT(overall_improvement, 1, 10)]

\* ', '.join(strings)
RECURSIVE Join(_)
Join(ss) ==
    IF ss = << >> THEN ""
    ELSE IF Len(ss) = 1 THEN ss[1]
    ELSE ss[1] \o ", " \o Join(Tail(ss))

\* quality_score is in thousandths
extract_learning_insights(previous_refinements, current_refinement) ==
    LET n == Len(previous_refinements)
        recent == IF n >= 2 THEN SubSeq(previous_refinements, n - 1, n) ELSE << >>
        recent_improvements ==
            [i \in 1..Len(recent) |->
                Get(Get(recent[i], "improvement_validation", EmptyDict),
                    "overall_improvement", Frac(0, 1))]
        current_improvement ==
            Get(Get(current_refinement, "improvement_validation", EmptyDict),
                "overall_improvement", Frac(0, 1))
        opportunities == Get(current_refinement, "refinement_opportunities", << >>)
        quality_score == Get(current_refinement, "quality_score", 500)
    IN  (IF n >= 2 /\ \A i \in 1..2 : FracGT(recent_improvements[i], 0, 1)
         THEN << "Consistent improvement pattern - refinement strategy is effective" >>
         ELSE IF n >= 2 /\ \A i \in 1..2 : FracLE(recent_improvements[i], 0, 1)
         THEN << "Diminishing returns - consider alternative refinement approaches" >>
         ELSE << >>)
     \o (IF FracGT(current_improvement, 1, 10)
         THEN << "Successful strategies: "
                 \o Join([i \in 1..Len(opportunities) |->
                            opportunities[i].refinement_strategy]) >>
         ELSE << >>)
     \o (IF quality_score > 800
         THEN << "High quality plan achieved - minimal further refinement needed" >>
         ELSE IF quality_score < 500
         THEN << "Plan quality below threshold - significant refinement still needed" >>
         ELSE << >>)

\* round(weighted sum of the five metrics, 3), in thousandths
calculate_quality_score(plan) ==
    LET q == assess_plan_quality(plan)
        weights == [feasibility_score |-> 25, impact_score |-> 30,
                    cost_effectiveness |-> 20, implementation_clarity |-> 15,
                    user_alignment |-> 10]
        weighted == SumSeq([i \in 1..Len(QualityMetrics) |->
                               q[QualityMetrics[i]] * weights[QualityMetrics[i]]])
    IN  RoundDiv(10 * weighted, q.den)

\* in tenths
calculate_refinement_confidence(improvement_validation) ==
    LET overall_improvement ==
            Get(improvement_validation, "overall_improvement", Frac(0, 1))
    IN  IF ~Get(improvement_validation, "validation_passed", FALSE) THEN 3
        ELSE IF FracGT(overall_improvement, 2, 10) THEN 9
        ELSE IF FracGT(overall_improvement, 1, 10) THEN 7
        ELSE IF FracGT(overall_improvement, 0, 1) THEN 5
        ELSE 3

\* a refine_plan whose record reports on the wrong plans: the quality score
\* is that of the plan handed in, and the improvement of the refined plan is
\* measured against a plan without actions (a faulty variant of refine_plan)
MisreportedRefinement(synthesis, previous_refinements) ==
    LET quality_assessment == assess_plan_quality(synthesis)
        refinement_opportunities ==
            identify_refinement_opportunities(synthesis, previous_refinements,
                                              quality_assessment)
        refined_plan == apply_refinements(synthesis, refinement_opportunities)
        improvement_validation == validate_improvements(EmptyDict, refined_plan)
    IN  [iteration |-> Len(previous_refinements) + 1,
         quality_assessment |-> quality_assessment,
         refinement_opportunities |-> refinement_opportunities,
         refined_plan |-> refined_plan,
         improvement_validation |-> improvement_validation,
         learning_insights |-> extract_learning_insights(previous_refinements, refined_plan),
         quality_score |-> calculate_quality_score(synthesis),
         refinement_confidence |-> calculate_refinement_confidence(improvement_validation)]

refine_plan(synthesis, previous_refinements) ==
    LET quality_assessment == assess_plan_quality(synthesis)
        refinement_opportunities ==
            identify_refinement_opportunities(synthesis, previous_refinements,
                                              quality_assessment)
        refined_plan == apply_refinements(synthesis, refinement_opportunities)
        improvement_validation == validate_improvements(synthesis, refined_plan)
    IN  [iteration |-> Len(previous_refinements) + 1,
         quality_assessment |-> quality_assessment,
         refinement_opportunities |-> refinement_opportunities,
         refined_plan |-> refined_plan,
         improvement_validation |-> improvement_validation,
         learning_insights |-> extract_learning_insights(previous_refinements, refined_plan),
         quality_score |-> calculate_quality_score(refined_plan),
         refinement_confidence |-> calculate_refinement_confidence(improvement_validation)]

\* The plan refine_plan returns is a shallow copy of the synthesis it was
\* handed (synthesis.copy()): the two share the dict of every action that no
\* strategy replaced or dropped, and so does every plan that shared it
\* before.  The learning refinement extends, in place, each action of its
\* list that has no implementation_tips; it is the last strategy applied, so
\* the actions it extended are those of the refined plan.  This is a plan
\* sharing action dicts with the synthesis handed in, as the call leaves it.
\* (The target_actions of the record's opportunities share them too; they
\* are kept as collected, no operation reads them after the call.)
plan_after_refinement(plan, record) ==
    LET learned ==
            \E k \in 1..Len(record.refinement_opportunities) :
                record.refinement_opportunities[k].refinement_strategy = "adaptive_learning"
        refined_actions == Get(record.refined_plan, "prioritized_actions", << >>)
        extended(action) ==
            IF InList(with_implementation_tips(action), refined_actions)
            THEN with_implementation_tips(action)
            ELSE action
    IN  IF ~learned THEN plan ELSE WithSharedActions(plan, extended)

-----------------------------------------------------------------------------
(* agents/evaluator.py                                                      *)
(*                                                                          *)
(* Scores rounded by the source to 2 decimals are in hundredths, those      *)
(* rounded to 3 decimals in thousandths, percentages rounded to 1 decimal   *)
(* in tenths.  Fields of the evaluator's output that no other modelled      *)
(* operation reads (risk_analysis, success_metrics, tracking_plan,          *)
(* next_steps, support_resources, recommendations_summary) are omitted.     *)

PlanActions(synthesis) == Get(synthesis, "prioritized_actions", << >>)

categorize_impact(num, den) ==
    \* reduction_percentage = num / den
    IF num >= 70 * den THEN "transformational"
    ELSE IF num >= 50 * den THEN "substantial"
    ELSE IF num >= 30 * den THEN "significant"
    ELSE IF num >= 15 * den THEN "moderate"
    ELSE "minimal"

compare_to_global_average(footprint) ==
    [vs_global_average |-> RoundDiv((footprint - 480) * 1000, 480),
     vs_paris_target |-> RoundDiv((footprint - 230) * 1000, 230),
     alignment_status |-> IF footprint <= 230 THEN "aligned" ELSE "above_target"]

evaluate_carbon_impact(synthesis) ==
    LET total_footprint == Get(synthesis, "total_carbon_footprint", 0)
        impact_analysis == Get(synthesis, "impact_analysis", EmptyDict)
        potential_reduction == Get(impact_analysis, "total_potential_reduction", 0)
        base == Max(total_footprint, 100)
    IN  [current_footprint |-> total_footprint,
         potential_reduction |-> potential_reduction,
         reduction_percentage |-> RoundDiv(potential_reduction * 1000, base),
         impact_score |-> Min(100, RoundDiv(potential_reduction * 10000, base * 70)),
         impact_category |-> categorize_impact(potential_reduction * 100, base),
         global_comparison |-> compare_to_global_average(total_footprint)]

\* feasibility_counts[feasibility] += 1 raises KeyError for any other value
FeasibilityLevels == {"high", "medium", "low"}

evaluate_feasibility_raises(synthesis) ==
    \E i \in 1..Len(PlanActions(synthesis)) :
        Get(PlanActions(synthesis)[i], "feasibility", "medium") \notin FeasibilityLevels

categorize_feasibility(num, den) ==
    \* score = num / den in tenths
    IF num >= 8 * den THEN "highly_feasible"
    ELSE IF num >= 6 * den THEN "moderately_feasible"
    ELSE IF num >= 4 * den THEN "challenging"
    ELSE "difficult"

identify_implementation_barriers(actions) ==
    LET high_cost == Count(actions, LAMBDA a : Contains("high", Lower(Get(a, "cost_impact", ""))))
        low_feasibility == Count(actions, LAMBDA a : Get(a, "feasibility", NoneStr) = "low")
        complex == Count(actions, LAMBDA a : Len(Get(a, "action", "")) > 50)
    IN  (IF 2 * high_cost > Len(actions)
         THEN << "High upfront costs for majority of interventions" >> ELSE << >>)
     \o (IF low_feasibility > 0
         THEN << ToString(low_feasibility) \o " interventions have low feasibility" >>
         ELSE << >>)
     \o (IF complex > 3
         THEN << "Multiple complex interventions may overwhelm implementation" >>
         ELSE << >>)

evaluate_feasibility(synthesis, refinements) ==
    LET actions == PlanActions(synthesis)
        n == Max(Len(actions), 1)
        cnt(f) == Count(actions, LAMBDA a : Get(a, "feasibility", "medium") = f)
        num == 10 * cnt("high") + 6 * cnt("medium") + 2 * cnt("low")
        latest_refinement == refinements[Len(refinements)]
        refinement_improvement ==
            IF refinements # << >>
            THEN Get(Get(Get(Get(latest_refinement, "improvement_validation", EmptyDict),
                             "metric_improvements", EmptyDict),
                         "feasibility_score", EmptyDict),
                     "improvement", Frac(0, 1))
            ELSE Frac(0, 1)
    IN  [feasibility_score |-> RoundDiv(10 * num, n),
         feasibility_distribution |->
            [high |-> cnt("high"), medium |-> cnt("medium"), low |-> cnt("low")],
         refinement_improvement |->
            RoundDiv(100 * refinement_improvement.num, refinement_improvement.den),
         implementation_barriers |-> identify_implementation_barriers(actions),
         feasibility_category |-> categorize_feasibility(num, n)]

estimate_roi(actions) ==
    LET total_co2_reduction ==
            SumSeq([i \in 1..Len(actions) |->
                       LastNumber(Get(actions[i], "co2_reduction", "0.5"), 0)])
        annual_carbon_value == total_co2_reduction * 50     \* hundredths of a USD
    IN  [annual_carbon_value |-> RoundDiv(annual_carbon_value, 100),
         ten_year_value |-> RoundDiv(annual_carbon_value * 10, 100),
         roi_category |-> IF annual_carbon_value > 100000 THEN "positive" ELSE "moderate"]

estimate_payback_period(actions) ==
    LET high_cost_count ==
            Count(actions, LAMBDA a : Contains("high", Lower(Get(a, "cost_impact", ""))))
        savings_count ==
            Count(actions, LAMBDA a : Contains("savings", Lower(Get(a, "cost_impact", ""))))
    IN  IF savings_count > high_cost_count THEN "1-3 years"
        ELSE IF high_cost_count <= 2 THEN "3-7 years"
        ELSE "7-15 years"

\* the categories for a score num / den in tenths, with cut points 8, 6, 4
Categorize(num, den, c8, c6, c4, c0) ==
    IF num >= 8 * den THEN c8
    ELSE IF num >= 6 * den THEN c6
    ELSE IF num >= 4 * den THEN c4
    ELSE c0

categorize_cost_benefit(num, den) == Categorize(num, den, "excellent", "good", "fair", "poor")

evaluate_cost_benefit(synthesis) ==
    LET actions == PlanActions(synthesis)
        n == Max(Len(actions), 1)
        cost(a) == Lower(Get(a, "cost_impact", "medium"))
        isLow(a) == Contains("savings", cost(a)) \/ Contains("low", cost(a))
        isHigh(a) == ~isLow(a) /\ Contains("high", cost(a))
        low == Count(actions, isLow)
        high == Count(actions, isHigh)
        medium == Len(actions) - low - high
        num == 10 * low + 6 * medium + 3 * high
    IN  [cost_benefit_score |-> RoundDiv(10 * num, n),
         cost_distribution |-> [low |-> low, medium |-> medium, high |-> high, savings |-> 0],
         roi_estimate |-> estimate_roi(actions),
         payback_period |-> estimate_payback_period(actions),
         cost_category |-> categorize_cost_benefit(num, n)]

\* complexity score, in tenths over max(len(actions), 1)
assess_complexity(actions) ==
    LET simple_keywords == {"led", "thermostat", "bike", "walk", "reduce", "choose"}
        complex_keywords == {"install", "upgrade", "system", "panels", "pump"}
        text(a) == Lower(Get(a, "action", ""))
        simple_count == Count(actions, LAMBDA a : ContainsAny(simple_keywords, text(a)))
        complex_count ==
            Count(actions, LAMBDA a : /\ ~ContainsAny(simple_keywords, text(a))
                                      /\ ContainsAny(complex_keywords, text(a)))
    IN  10 * simple_count + 6 * (Len(actions) - simple_count - complex_count)
        + 3 * complex_count

\* clarity score, in tenths over max(len(actions), 1), capped at 1.0
assess_clarity(actions, refinements) ==
    LET actions_with_tips ==
            Count(actions, LAMBDA a : Get(a, "implementation_tips", << >>) # << >>)
        clear_actions == Count(actions, LAMBDA a : Len(Get(a, "action", "")) > 20)
    IN  Min(10 * Max(Len(actions), 1), 5 * actions_with_tips + 5 * clear_actions)

\* motivation score, in tenths over max(len(actions), 1), capped at 1.0
assess_motivation_potential(actions) ==
    LET quick_wins == Count(actions, LAMBDA a : Get(a, "feasibility", NoneStr) = "high")
        high_impact == Count(actions, LAMBDA a : Contains("high", Get(a, "co2_reduction", "")))
        cost_savings == Count(actions, LAMBDA a : Contains("savings", Get(a, "cost_impact", "")))
    IN  Min(10 * Max(Len(actions), 1), 4 * quick_wins + 4 * high_impact + 2 * cost_savings)

categorize_ux(num, den) == Categorize(num, den, "excellent", "good", "fair", "poor")

assess_user_journey(actions) ==
    LET first == Take(actions, 5)
        cnt(f) == Count(first, LAMBDA a : Get(a, "feasibility", "medium") = f)
    IN  IF cnt("high") >= 2 THEN "good_onboarding"
        ELSE IF cnt("low") <= 1 THEN "manageable_progression"
        ELSE "challenging_start"

evaluate_user_experience(synthesis, refinements) ==
    LET actions == PlanActions(synthesis)
        n == Max(Len(actions), 1)
        complexity_score == assess_complexity(actions)
        clarity_score == assess_clarity(actions, refinements)
        motivation_score == assess_motivation_potential(actions)
        sum == complexity_score + clarity_score + motivation_score
    IN  [ux_score |-> RoundDiv(10 * sum, 3 * n),
         complexity_score |-> RoundDiv(10 * complexity_score, n),
         clarity_score |-> RoundDiv(10 * clarity_score, n),
         motivation_score |-> RoundDiv(10 * motivation_score, n),
         ux_category |-> categorize_ux(sum, 3 * n),
         user_journey_quality |-> assess_user_journey(actions)]

categorize_sustainability(num, den) ==
    Categorize(num, den, "highly_sustainable", "sustainable",
               "moderately_sustainable", "sustainability_concerns")

assess_long_term_viability(actions) ==
    LET lasting_keywords == {"install", "upgrade", "system", "habit", "routine"}
        lasting_actions ==
            Count(actions, LAMBDA a : ContainsAny(lasting_keywords, Lower(Get(a, "action", ""))))
    IN  IF 10 * lasting_actions >= 6 * Len(actions) THEN "high_lasting_impact"
        ELSE IF 10 * lasting_actions >= 3 * Len(actions) THEN "moderate_lasting_impact"
        ELSE "requires_ongoing_effort"

evaluate_sustainability(synthesis) ==
    LET actions == PlanActions(synthesis)
        n == Max(Len(actions), 1)
        behavioral_keywords == {"reduce", "choose", "eat", "walk", "bike", "buy"}
        tech_keywords == {"install", "upgrade", "system", "panels", "vehicle"}
        text(a) == Lower(Get(a, "action", ""))
        behavioral == Count(actions, LAMBDA a : ContainsAny(behavioral_keywords, text(a)))
        technological ==
            Count(actions, LAMBDA a : /\ ~ContainsAny(behavioral_keywords, text(a))
                                      /\ ContainsAny(tech_keywords, text(a)))
        balance == n - Abs(behavioral - technological)
    IN  [sustainability_score |-> RoundDiv(100 * balance, n),
         behavioral_ratio |-> RoundDiv(100 * behavioral, n),
         technological_ratio |-> RoundDiv(100 * technological, n),
         sustainability_category |-> categorize_sustainability(10 * balance, n),
         long_term_viability |-> assess_long_term_viability(actions)]

\* round(sum of score * weight, 3), in thousandths.  The score of a criterion
\* is read under the key "<criterion>_score" (default 0.5), except for
\* carbon_impact, which is read under "impact_score".
calculate_overall_evaluation_score(evaluation) ==
    LET criteria == << "carbon_impact", "feasibility", "cost_benefit",
                       "user_experience", "sustainability" >>
        weights == [carbon_impact |-> 35, feasibility |-> 25, cost_benefit |-> 20,
                    user_experience |-> 15, sustainability |-> 5]
        score(criterion) ==
            LET criterion_data == Get(evaluation, criterion, EmptyDict)
            IN  IF criterion = "carbon_impact"
                THEN Get(criterion_data, "impact_score", 50)
                ELSE Get(criterion_data, criterion \o "_score", 50)
    IN  RoundDiv(SumSeq([i \in 1..Len(criteria) |->
                            score(criteria[i]) * weights[criteria[i]]]), 10)

comprehensive_evaluation(synthesis, refinements) ==
    LET evaluation ==
            [carbon_impact |-> evaluate_carbon_impact(synthesis),
             feasibility |-> evaluate_feasibility(synthesis, refinements),
             cost_benefit |-> evaluate_cost_benefit(synthesis),
             user_experience |-> evaluate_user_experience(synthesis, refinements),
             sustainability |-> evaluate_sustainability(synthesis)]
    IN  With(evaluation, "overall_score", calculate_overall_evaluation_score(evaluation))


check_completeness(synthesis) ==
    LET actions == PlanActions(synthesis)
        covered(d) == \E i \in 1..Len(actions) : Get(actions[i], "domain", "unknown") = d
        coverage_count == Cardinality({d \in Domains : covered(d)})
    IN  [passed |-> coverage_count >= 3,
         coverage_count |-> coverage_count,
         missing_domains |-> Filter(DomainOrder, LAMBDA d : ~covered(d))]

check_consistency(synthesis) ==
    LET actions == PlanActions(synthesis)
        high_cost_count ==
            Count(actions, LAMBDA a : Contains("high", Lower(Get(a, "cost_impact", ""))))
        conflicts == IF 10 * high_cost_count > 7 * Len(actions)
                     THEN << "Too many high-cost interventions may not be feasible" >>
                     ELSE << >>
    IN  [passed |-> Len(conflicts) = 0,
         conflicts_found |-> Len(conflicts),
         conflicts |-> conflicts]

check_actionability(synthesis) ==
    LET actions == PlanActions(synthesis)
        words == {"install", "switch", "reduce", "choose", "upgrade", "use"}
        actionable_count ==
            Count(actions, LAMBDA a : /\ Len(Get(a, "action", "")) > 15
                                      /\ ContainsAny(words, Lower(Get(a, "action", ""))))
        n == Max(Len(actions), 1)
    IN  [passed |-> 10 * actionable_count >= 8 * n,
         actionable_ratio |-> RoundDiv(100 * actionable_count, n),
         actionable_count |-> actionable_count]

check_measurability(synthesis) ==
    LET actions == PlanActions(synthesis)
        measurable_count == Count(actions, LAMBDA a : HasDigit(Get(a, "co2_reduction", "")))
        n == Max(Len(actions), 1)
    IN  [passed |-> 10 * measurable_count >= 7 * n,
         measurable_ratio |-> RoundDiv(100 * measurable_count, n),
         measurable_count |-> measurable_count]

ValidationChecks == << "completeness", "consistency", "actionability", "measurability" >>

\* a report that stops at the first failed check (a faulty variant of
\* identify_critical_issues)
OnlyFirstIssue(validation_checks) ==
    IF \A i \in 1..Len(ValidationChecks) : validation_checks[ValidationChecks[i]].passed
    THEN << >>
    ELSE << "Plan does not cover all major emission domains" >>

identify_critical_issues(validation_checks) ==
    LET issue == [completeness |-> "Plan does not cover all major emission domains",
                  consistency |-> "Internal inconsistencies in recommendations",
                  actionability |-> "Recommendations lack specific actionable steps",
                  measurability |-> "Outcomes are not sufficiently measurable"]
        failed == Filter(ValidationChecks, LAMBDA c : ~validation_checks[c].passed)
    IN  [i \in 1..Len(failed) |-> issue[failed[i]]]

\* validation_score is the number of passed checks, out of len(validation_checks)
validate_final_plan(synthesis, refinements) ==
    LET validation_checks ==
            [completeness |-> check_completeness(synthesis),
             consistency |-> check_consistency(synthesis),
             actionability |-> check_actionability(synthesis),
             measurability |-> check_measurability(synthesis)]
        passed == Count(ValidationChecks, LAMBDA c : validation_checks[c].passed)
    IN  [validation_checks |-> validation_checks,
         validation_score |-> Frac(passed, Len(ValidationChecks)),
         validation_passed |-> 100 * passed >= 75 * Len(ValidationChecks),
         critical_issues |-> identify_critical_issues(validation_checks)]

extract_user_characteristics(user_input) ==
    LET text == Lower(user_input)
    IN  [luxury_oriented |-> ContainsAny({"luxury", "expensive", "premium", "high-end"}, text),
         tech_savvy |-> ContainsAny({"tech", "smart", "app", "digital"}, text),
         environmentally_conscious |->
            ContainsAny({"eco", "green", "sustainable", "environment"}, text),
         budget_conscious |-> ContainsAny({"cheap", "affordable", "budget", "save money"}, text),
         convenience_focused |-> ContainsAny({"convenient", "easy", "simple", "quick"}, text)]

AlignmentPoints(action, characteristics) ==
    LET cost == Lower(Get(action, "cost_impact", ""))
        text == Lower(Get(action, "action", ""))
        B(b) == IF b THEN 1 ELSE 0
    IN    B(characteristics.budget_conscious
            /\ (Contains("savings", cost) \/ Contains("low", cost)))
        + B(characteristics.convenience_focused /\ Get(action, "feasibility", NoneStr) = "high")
        + B(characteristics.tech_savvy /\ ContainsAny({"smart", "app", "system", "tech"}, text))
        + B(characteristics.environmentally_conscious
            /\ ContainsAny({"renewable", "sustainable", "eco", "green"}, text))

\* alignment_points / max(total_points, 1), kept as a fraction
calculate_alignment_score(synthesis, characteristics) ==
    LET actions == PlanActions(synthesis)
    IN  Frac(SumSeq([i \in 1..Len(actions) |-> AlignmentPoints(actions[i], characteristics)]),
             Max(Len(actions), 1))

categorize_alignment(score) ==
    Categorize(10 * score.num, score.den, "highly_aligned", "well_aligned",
               "moderately_aligned", "poorly_aligned")

action_matches_user(action, characteristics) ==
    LET action_text == Lower(Get(action, "action", ""))
        cost_impact == Lower(Get(action, "cost_impact", ""))
        feasibility == Get(action, "feasibility", "medium")
    IN  \/ characteristics.budget_conscious
           /\ (Contains("savings", cost_impact) \/ Contains("low", cost_impact))
        \/ characteristics.convenience_focused /\ feasibility = "high"
        \/ characteristics.tech_savvy
           /\ ContainsAny({"smart", "app", "system", "electric"}, action_text)
        \/ characteristics.luxury_oriented
           /\ ContainsAny({"premium", "high-end", "advanced"}, action_text)

assess_personalization(synthesis, characteristics) ==
    LET top_actions == Take(PlanActions(synthesis), 3)
        personalized_count ==
            Count(top_actions, LAMBDA a : action_matches_user(a, characteristics))
    IN  IF personalized_count >= 2 THEN "well_personalized"
        ELSE IF personalized_count >= 1 THEN "somewhat_personalized"
        ELSE "generic_recommendations"

assess_user_alignment(synthesis, user_input) ==
    LET user_characteristics == extract_user_characteristics(user_input)
        alignment_score == calculate_alignment_score(synthesis, user_characteristics)
    IN  [alignment_score |-> alignment_score,
         user_characteristics |-> user_characteristics,
         alignment_category |-> categorize_alignment(alignment_score),
         personalization_quality |-> assess_personalization(synthesis, user_characteristics)]


define_action_success_criteria(action) ==
    LET action_text == Lower(Get(action, "action", ""))
    IN  IF Contains("solar", action_text)
        THEN << "System installed and operational", "Monthly energy bill reduced",
                "CO2 emissions tracked" >>
        ELSE IF Contains("electric", action_text)
        THEN << "Vehicle purchased/leased", "Charging setup complete",
                "Fuel costs eliminated" >>
        ELSE IF Contains("diet", action_text) \/ Contains("meat", action_text)
        THEN << "Meal planning established", "Plant-based meals tracked",
                "Nutritional balance maintained" >>
        ELSE IF Contains("insulation", action_text) \/ Contains("efficiency", action_text)
        THEN << "Installation completed", "Energy usage monitored",
                "Comfort level maintained" >>
        ELSE << "Action implemented", "Progress tracked", "Results measured" >>

estimate_action_timeline(action) ==
    LET feasibility == Get(action, "feasibility", "medium")
        cost_impact == Lower(Get(action, "cost_impact", "medium"))
    IN  IF feasibility = "high"
           /\ (Contains("low", cost_impact) \/ Contains("savings", cost_impact))
        THEN "1-4 weeks"
        ELSE IF feasibility = "high" THEN "1-3 months"
        ELSE IF feasibility = "medium" THEN "3-6 months"
        ELSE "6-12 months"

identify_action_resources(action) ==
    LET action_text == Lower(Get(action, "action", ""))
    IN  IF Contains("install", action_text)
        THEN << "Professional installer", "Permits/approvals", "Financing" >>
        ELSE IF Contains("purchase", action_text) \/ Contains("buy", action_text)
        THEN << "Research time", "Budget allocation", "Vendor selection" >>
        ELSE IF Contains("reduce", action_text) \/ Contains("change", action_text)
        THEN << "Habit tracking app", "Alternative options research", "Support system" >>
        ELSE << "Planning time", "Implementation budget", "Progress tracking" >>

\* the actions of the plan after the loop that adds the three fields to each
FinalizedActions(plan) ==
    LET actions == PlanActions(plan)
    IN  [i \in 1..Len(actions) |->
            With(With(With(actions[i],
                "success_criteria", define_action_success_criteria(actions[i])),
                "timeline", estimate_action_timeline(actions[i])),
                "resources_needed", identify_action_resources(actions[i]))]

\* a plan that shares action dicts with the plan _finalize_action_list is
\* handed, as the call leaves it: the call sets success_criteria, timeline and
\* resources_needed on every action of its plan, in place
plan_after_finalizing(plan, base_plan) ==
    LET finalized(action) ==
            IF InList(action, PlanActions(base_plan))
            THEN FinalizedActions([prioritized_actions |-> << action >>])[1]
            ELSE action
    IN  WithSharedActions(plan, finalized)

\* a finalizer that keeps every action (a faulty variant of TopActions)
AllActions(actions) == actions

\* actions[:6] of _finalize_action_list
TopActions(actions) == Take(actions, 6)

finalize_action_list(plan, evaluation_results) == TopActions(FinalizedActions(plan))

TimelineBucket(action) ==
    LET action_timeline == Get(action, "timeline", "3-6 months")
    IN  IF Contains("week", action_timeline) \/ Contains("1-4", action_timeline)
        THEN "immediate"
        ELSE IF Contains("1-3 months", action_timeline) THEN "short_term"
        ELSE IF Contains("3-6 months", action_timeline) THEN "medium_term"
        ELSE "long_term"

\* action["action"] raises KeyError for an action without that key
create_implementation_timeline_raises(actions) ==
    \E i \in 1..Len(actions) : "action" \notin DOMAIN actions[i]

create_implementation_timeline(actions) ==
    LET bucket(b) ==
            LET members == Filter(actions, LAMBDA a : TimelineBucket(a) = b)
            IN  [i \in 1..Len(members) |-> members[i]["action"]]
    IN  [immediate |-> bucket("immediate"),
         short_term |-> bucket("short_term"),
         medium_term |-> bucket("medium_term"),
         long_term |-> bucket("long_term")]

\* total_reduction is kept as the number the source formats, in tenths
define_expected_outcomes(actions) ==
    LET total_co2_reduction ==
            SumSeq([i \in 1..Len(actions) |->
                       LastNumber(Get(actions[i], "co2_reduction", "0.5"), 0)])
    IN  [carbon_impact |->
            [total_reduction |-> RoundDiv(total_co2_reduction, 10),
             percentage_reduction |-> "40-70%",
             global_impact |-> "Equivalent to planting 50-150 trees annually"]]

\* the plan the final actions are taken from
BasePlan(synthesis, refinements) ==
    IF refinements # << >>
       /\ Get(refinements[Len(refinements)], "quality_score", 0) > 700
    THEN Get(refinements[Len(refinements)], "refined_plan", synthesis)
    ELSE synthesis

generate_final_plan(synthesis, refinements, evaluation_results, validation_results) ==
    LET base_plan == BasePlan(synthesis, refinements)
        final_actions == finalize_action_list(base_plan, evaluation_results)
    IN  [final_actions |-> final_actions,
         implementation_timeline |-> create_implementation_timeline(final_actions),
         expected_outcomes |-> define_expected_outcomes(final_actions)]

\* round(min(100, max(0, base + overall * 20 + alignment * 15 + feasibility * 10)), 1),
\* in tenths; eco_score is in tenths, overall_score in thousandths,
\* alignment_score a fraction and feasibility_score in hundredths
\* a score that is rounded but not capped at 100 (a faulty variant of FinalScore)
UncappedScore(num, den) == Max(0, RoundDiv(num, den))

FinalScore(num, den) == Min(1000, Max(0, RoundDiv(num, den)))

calculate_final_eco_score(synthesis, evaluation_results, user_alignment) ==
    LET base_score == Get(synthesis, "eco_score", 250)
        overall_eval_score == Get(evaluation_results, "overall_score", 500)
        alignment_score == Get(user_alignment, "alignment_score", Frac(1, 2))
        feasibility_data == Get(evaluation_results, "feasibility", EmptyDict)
        feasibility_score == Get(feasibility_data, "feasibility_score", 50)
        den == 5 * alignment_score.den
    IN  FinalScore((base_score + feasibility_score) * den
                     + overall_eval_score * alignment_score.den
                     + 750 * alignment_score.num,
                   den)

\* implementation confidence, in hundredths
calculate_implementation_confidence(validation_results) ==
    LET validation_score == Get(validation_results, "validation_score", Frac(1, 2))
        validation_passed == Get(validation_results, "validation_passed", FALSE)
    IN  IF validation_passed /\ validation_score.num * 10 >= 9 * validation_score.den THEN 95
        ELSE IF validation_passed /\ validation_score.num * 10 >= 8 * validation_score.den THEN 85
        ELSE IF validation_passed THEN 75
        ELSE IF validation_score.num * 10 >= 6 * validation_score.den THEN 60
        ELSE 40

\* evaluate_and_finalize raises instead of returning
evaluate_and_finalize_raises(evaluation_input) ==
    LET synthesis == Get(evaluation_input, "synthesis", EmptyDict)
        refinements == Get(evaluation_input, "refinements", << >>)
    IN  \/ evaluate_feasibility_raises(synthesis)
        \/ create_implementation_timeline_raises(
               TopActions(PlanActions(BasePlan(synthesis, refinements))))

evaluate_and_finalize(evaluation_input) ==
    LET synthesis == Get(evaluation_input, "synthesis", EmptyDict)
        refinements == Get(evaluation_input, "refinements", << >>)
        user_input == Get(evaluation_input, "user_input", "")
        evaluation_results == comprehensive_evaluation(synthesis, refinements)
        validation_results == validate_final_plan(synthesis, refinements)
        user_alignment == assess_user_alignment(synthesis, user_input)
        final_plan == generate_final_plan(synthesis, refinements,
                                          evaluation_results, validation_results)
    IN  [agent_id |-> "evaluator_final_007",
         evaluation_results |-> evaluation_results,
         validation_results |-> validation_results,
         user_alignment |-> user_alignment,
         final_plan |-> final_plan,
         final_eco_score |->
            calculate_final_eco_score(synthesis, evaluation_results, user_alignment),
         implementation_confidence |->
            calculate_implementation_confidence(validation_results)]

-----------------------------------------------------------------------------
(* agents/supervisor.py                                                     *)

\* _extract_location: the first keyword found in the text is geocoded; the
\* geocoder is an external service, geocoded is what it returned (None when
\* it failed or found nothing).  Latitude and longitude are in 1/10000 degree.
location_keywords ==
    << "Tokyo", "New York", "London", "Paris", "Berlin", "Sydney",
       "San Francisco", "Los Angeles", "Chicago", "Boston", "Seattle" >>

DetectedLocation(user_input) ==
    LET found == Filter(location_keywords,
                        LAMBDA k : Contains(Lower(k), Lower(user_input)))
    IN  IF found = << >> THEN NoneStr ELSE found[1]

default_location == [city |-> "Tokyo", lat |-> 356762, lon |-> 1396503, country |-> "Japan"]

extract_location(user_input, geocoded) ==
    IF DetectedLocation(user_input) # NoneStr /\ geocoded # None
    THEN [city |-> DetectedLocation(user_input), lat |-> geocoded.lat,
          lon |-> geocoded.lon, country |-> geocoded.country]
    ELSE default_location

\* the first level, in the order of the dict, one of whose keywords occurs
FirstLevel(levels, keywords, text, default) ==
    LET hit == Filter(levels, LAMBDA l : ContainsAny(keywords[l], text))
    IN  IF hit = << >> THEN default ELSE hit[1]

analyze_lifestyle_patterns(user_input) ==
    LET text == Lower(user_input)
        transport_keywords ==
            [high |-> {"private jet", "helicopter", "luxury car", "v8", "v12", "sports car"},
             medium |-> {"car", "drive", "suv", "truck", "motorcycle"},
             low |-> {"bike", "walk", "public transport", "train", "bus"}]
        diet_keywords ==
            [meat_heavy |-> {"wagyu", "steak", "beef", "meat daily", "carnivore"},
             mixed |-> {"chicken", "fish", "meat", "omnivore"},
             plant_based |-> {"vegan", "vegetarian", "plant-based", "salad"}]
        luxury_keywords == {"luxury", "expensive", "premium", "high-end", "private", "exclusive"}
    IN  [transport_intensity |->
            FirstLevel(<< "high", "medium", "low" >>, transport_keywords, text, "low"),
         diet_type |->
            FirstLevel(<< "meat_heavy", "mixed", "plant_based" >>, diet_keywords, text, "mixed"),
         home_energy |-> "medium",
         shopping_frequency |-> "medium",
         luxury_level |-> IF ContainsAny(luxury_keywords, text) THEN "high" ELSE "low"]

\* priorities in hundredths
determine_agent_priorities(lifestyle_analysis) ==
    LET Pr(h, t, d, s) == [home_expert |-> h, transport_expert |-> t,
                           diet_expert |-> d, shopping_expert |-> s]
    IN  IF lifestyle_analysis.luxury_level = "high" THEN Pr(15, 35, 15, 35)
        ELSE IF lifestyle_analysis.diet_type = "meat_heavy" THEN Pr(20, 20, 40, 20)
        ELSE IF lifestyle_analysis.transport_intensity = "high" THEN Pr(20, 40, 20, 20)
        ELSE Pr(25, 25, 25, 25)

agent_roster == << "home_expert", "transport_expert", "diet_expert", "shopping_expert" >>

create_coordination_plan(agent_priorities) ==
    [execution_order |-> SortedDesc(agent_roster, LAMBDA a : agent_priorities[a]),
     parallel_groups |-> << << "home_expert", "transport_expert" >>,
                            << "diet_expert", "shopping_expert" >> >>,
     communication_matrix |->
        [home_expert |-> << "transport_expert" >>,
         transport_expert |-> << "home_expert", "shopping_expert" >>,
         diet_expert |-> << "shopping_expert" >>,
         shopping_expert |-> << "diet_expert", "transport_expert" >>],
     priority_weights |-> agent_priorities]

analyze_input(user_input, geocoded) ==
    LET lifestyle_analysis == analyze_lifestyle_patterns(user_input)
        agent_priorities == determine_agent_priorities(lifestyle_analysis)
    IN  [location |-> extract_location(user_input, geocoded),
         lifestyle_patterns |-> lifestyle_analysis,
         agent_priorities |-> agent_priorities,
         coordination_plan |-> create_coordination_plan(agent_priorities)]

coordinate_agents(coordination_plan, user_input) ==
    [coordination_success |-> TRUE,
     agent_assignments |->
        [a \in {agent_roster[i] : i \in 1..Len(agent_roster)} |->
            [priority_level |-> coordination_plan.priority_weights[a]]],
     execution_timeline |-> << >>]

analyze_and_coordinate(user_input, geocoded) ==
    LET analysis_result == analyze_input(user_input, geocoded)
    IN  [analysis |-> analysis_result,
         coordination |-> coordinate_agents(analysis_result.coordination_plan, user_input)]

-----------------------------------------------------------------------------
(* workflow.py: the stages of EcoForgeWorkflow                              *)

\* _run_supervisor_analysis, the Config.USE_MOCK_DATA branch (weights in hundredths)
mock_supervisor_analysis ==
    [agent_id |-> "supervisor_001",
     user_profile |-> [location |-> "Tokyo, Japan",
                       lifestyle_category |-> "urban_professional",
                       income_level |-> "high",
                       environmental_awareness |-> "medium"],
     domain_priorities |-> [transport |-> 35, home |-> 25, diet |-> 25, shopping |-> 15],
     analysis_strategy |-> "comprehensive_assessment",
     estimated_footprint_category |-> "very_high",
     coordination_plan |->
        [parallel_domains |-> << "home", "transport", "diet", "shopping" >>,
         sequential_steps |-> << "synthesis", "refinement", "evaluation" >>,
         expected_duration |-> "45 seconds"]]

run_supervisor_analysis(mock, user_input, geocoded) ==
    IF mock THEN mock_supervisor_analysis
    ELSE analyze_and_coordinate(user_input, geocoded)

\* _run_<domain>_analysis reads supervisor_result['user_input'] and
\* supervisor_result['location'] before it calls the expert: KeyError
run_domain_analysis_raises(mock, supervisor_result) ==
    ~mock /\ ~({"user_input", "location"} \subseteq DOMAIN supervisor_result)

\* results[i] if not isinstance(results[i], Exception) else the fallback
\* a fan-in that trusts no task (a faulty variant of FanInEntry)
AlwaysFallback(d, outcome) == get_fallback_analysis(d)

FanInEntry(d, outcome) ==
    IF outcome.raised THEN get_fallback_analysis(d) ELSE outcome.value

\* domain_results of _run_parallel_domain_analysis, from the gathered outcomes
compile_domain_results(outcomes) == [d \in Domains |-> FanInEntry(d, outcomes[d])]

\* workflow.py _calculate_priority_score: priority * impact, in hundredths
workflow_priority_score(recommendation) ==
    LET priority_scores == [high |-> 3, medium |-> 2, low |-> 1]
        priority == Get(priority_scores, Get(recommendation, "priority", "medium"), 2)
        impact == LastNumber(Get(recommendation, "co2_reduction", "0.5"), 50)
    IN  priority * impact

\* the mock synthesis indexes these keys of every analysis: KeyError
mock_synthesis_raises(domain_results) ==
    \E d \in Domains :
        ~({"carbon_footprint", "recommendations", "efficiency_score", "key_findings"}
             \subseteq DOMAIN domain_results[d])

MockRecommendations(domain_results) ==
    Flatten([i \in 1..Len(DomainOrder) |->
                LET recs == domain_results[DomainOrder[i]].recommendations
                IN  [j \in 1..Len(recs) |-> With(recs[j], "domain", DomainOrder[i])]])

\* max(25, min(100, 100 - (total_footprint / 4.8) * 40)), in tenths
mock_eco_score(total_footprint) ==
    Max(250, Min(1000, RoundDiv(1000 * 12 - 10 * total_footprint, 12)))

\* _run_synthesis, the Config.USE_MOCK_DATA branch
mock_synthesis(domain_results) ==
    LET total_footprint ==
            SumSeq([i \in 1..Len(DomainOrder) |->
                       domain_results[DomainOrder[i]].carbon_footprint])
        all_recommendations == MockRecommendations(domain_results)
    IN  [agent_id |-> "synthesizer_master_005",
         total_carbon_footprint |-> total_footprint,
         domain_breakdown |->
            [d \in Domains |->
                [carbon_footprint |-> domain_results[d].carbon_footprint,
                 efficiency_score |-> domain_results[d].efficiency_score,
                 key_findings |-> domain_results[d].key_findings,
                 improvement_potential |->
                    IF domain_results[d].efficiency_score < 40 THEN "high" ELSE "medium"]],
         synergies |->
            << [type |-> "home_transport_ev_solar",
                domains |-> << "home", "transport" >>,
                description |-> "Solar panels + Electric vehicle combo",
                synergy_multiplier |-> 15,
                combined_impact |-> "Reduce both home and transport emissions by 80%+",
                implementation_order |-> << "home_solar", "transport_ev" >>] >>,
         prioritized_actions |->
            Take(SortedDesc(all_recommendations, workflow_priority_score), 8),
         impact_analysis |->
            [total_potential_reduction |-> 850,
             quick_wins |->
                Take(Filter(all_recommendations,
                            LAMBDA r : Get(r, "priority", NoneStr) = "high"), 3),
             high_impact_projects |->
                Take(Filter(all_recommendations,
                            LAMBDA r : Contains("4.", Get(r, "co2_reduction", ""))), 2)],
         eco_score |-> mock_eco_score(total_footprint),
         synthesis_confidence |-> 85]

run_synthesis(mock, domain_results) ==
    IF mock THEN mock_synthesis(domain_results) ELSE synthesize(domain_results)

\* a decision that looks at the eco_score alone (a faulty variant of
\* should_refine)
RefineOnLowScoreOnly(synthesis_result) ==
    Get(synthesis_result, "eco_score", 500) < 600

\* _should_refine: eco_score < 60 or confidence < 0.7
should_refine(synthesis_result) ==
    \/ Get(synthesis_result, "eco_score", 500) < 600
    \/ Get(synthesis_result, "synthesis_confidence", 50) < 70

\* _run_refinement_loop, the Config.USE_MOCK_DATA branch
mock_refinement(synthesis_result) ==
    [iteration |-> 1,
     quality_assessment |->
        [den |-> 100, feasibility_score |-> 75, impact_score |-> 80,
         cost_effectiveness |-> 70, implementation_clarity |-> 85, user_alignment |-> 75],
     refinement_opportunities |->
        << [type |-> "sequencing_optimization",
            description |-> "Improve implementation sequencing and dependencies",
            refinement_strategy |-> "dependency_analysis"] >>,
     refined_plan |-> synthesis_result,
     improvement_validation |->
        [overall_improvement |-> Frac(5, 100), validation_passed |-> TRUE],
     quality_score |-> 770,
     refinement_confidence |-> 8]

run_refinement_loop(mock, synthesis_result, refinement_history) ==
    IF mock THEN mock_refinement(synthesis_result)
    ELSE refine_plan(synthesis_result, refinement_history)

\* _run_final_evaluation, the Config.USE_MOCK_DATA branch
mock_final_evaluation(synthesis_result) ==
    [agent_id |-> "evaluator_final_007",
     evaluation_results |->
        [carbon_impact |->
            [current_footprint |-> Get(synthesis_result, "total_carbon_footprint", 1300),
             potential_reduction |-> 850,
             reduction_percentage |-> 654,
             impact_score |-> 93,
             impact_category |-> "substantial"],
         feasibility |-> [feasibility_score |-> 75,
                          feasibility_category |-> "moderately_feasible"],
         overall_score |-> 840],
     final_plan |->
        [final_actions |-> Take(Get(synthesis_result, "prioritized_actions", << >>), 6),
         implementation_timeline |->
            [immediate |-> << "Upgrade to LED lighting", "Use public transport" >>,
             short_term |-> << "Install smart thermostat", "Reduce beef consumption" >>,
             medium_term |-> << "Install solar panels", "Purchase electric vehicle" >>,
             long_term |-> << >>],
         expected_outcomes |->
            [carbon_impact |->
                [total_reduction |-> 85,
                 percentage_reduction |-> "65%",
                 global_impact |-> "Equivalent to planting 200 trees annually"]]],
     final_eco_score |-> 725,
     implementation_confidence |-> 80]

EvaluationInput(synthesis_result, refinement_history, user_input) ==
    [synthesis |-> synthesis_result,
     refinements |-> refinement_history,
     user_input |-> user_input]

run_final_evaluation_raises(mock, synthesis_result, refinement_history, user_input) ==
    ~mock /\ evaluate_and_finalize_raises(
                 EvaluationInput(synthesis_result, refinement_history, user_input))

run_final_evaluation(mock, synthesis_result, refinement_history, user_input) ==
    IF mock THEN mock_final_evaluation(synthesis_result)
    ELSE evaluate_and_finalize(
             EvaluationInput(synthesis_result, refinement_history, user_input))


\* the mock synthesis sets rec["domain"] on the recommendations of
\* domain_results itself, domain by domain, until an analysis has no
\* "recommendations" (nothing is touched when a "carbon_footprint" is missing)
RECURSIVE TagRecommendations(_, _)
TagRecommendations(domain_results, i) ==
    IF i > Len(DomainOrder) THEN domain_results
    ELSE LET d == DomainOrder[i]
             analysis == domain_results[d]
         IN  IF "recommendations" \notin DOMAIN analysis THEN domain_results
             ELSE TagRecommendations(
                      [domain_results EXCEPT ![d] =
                          With(analysis, "recommendations",
                               [j \in 1..Len(analysis.recommendations) |->
                                   With(analysis.recommendations[j], "domain", d)])],
                      i + 1)

domain_results_after_synthesis(mock, domain_results) ==
    IF mock /\ \A d \in Domains : "carbon_footprint" \in DOMAIN domain_results[d]
    THEN TagRecommendations(domain_results, 1)
    ELSE domain_results

\* str(e) of the KeyError of the mock synthesis
mock_synthesis_error(domain_results) ==
    IF \E d \in Domains : "carbon_footprint" \notin DOMAIN domain_results[d]
    THEN "'carbon_footprint'"
    ELSE IF \E d \in Domains : "recommendations" \notin DOMAIN domain_results[d]
    THEN "'recommendations'"
    ELSE IF \E d \in Domains : "efficiency_score" \notin DOMAIN domain_results[d]
    THEN "'efficiency_score'"
    ELSE "'key_findings'"

\* the synthesis kept in workflow_state after the refinement step: the
\* refiner's plan shares its action dicts, the mock record holds the
\* synthesis itself and changes nothing
synthesis_after_refinement(mock, synthesis, refinement_result) ==
    IF mock THEN synthesis ELSE plan_after_refinement(synthesis, refinement_result)

\* the synthesis kept in workflow_state after the evaluator has finalized
\* the last record's refined plan: that plan shares action dicts with the
\* synthesis when the refiner made it from the synthesis in the same run
synthesis_after_evaluation(mock, refined_in_run, synthesis, refined_plan) ==
    IF mock \/ ~refined_in_run THEN synthesis
    ELSE plan_after_finalizing(synthesis, refined_plan)

\* the plan whose action dicts _finalize_action_list extends in place
plan_after_evaluation(mock, plan) ==
    IF mock \/ "prioritized_actions" \notin DOMAIN plan THEN plan
    ELSE With(plan, "prioritized_actions", FinalizedActions(plan))

\* _get_fallback_results
get_fallback_results(state) ==
    [eco_score |-> 250,
     total_carbon_footprint |-> 1250,
     potential_reduction |-> 600,
     domain_breakdown |->
        [home |-> [carbon_footprint |-> 300, efficiency_score |-> 40],
         transport |-> [carbon_footprint |-> 550, efficiency_score |-> 20],
         diet |-> [carbon_footprint |-> 250, efficiency_score |-> 30],
         shopping |-> [carbon_footprint |-> 150, efficiency_score |-> 40]],
     prioritized_actions |->
        << [action |-> "Switch to LED lighting throughout home",
            co2_reduction |-> "0.5 tons/year",
            feasibility |-> "high",
            cost_impact |-> "Low cost, immediate savings",
            domain |-> "home"],
           [action |-> "Use public transportation for daily commute",
            co2_reduction |-> "2.0 tons/year",
            feasibility |-> "high",
            cost_impact |-> "Cost savings immediately",
            domain |-> "transport"],
           [action |-> "Reduce meat consumption by 50%",
            co2_reduction |-> "1.0 tons/year",
            feasibility |-> "medium",
            cost_impact |-> "Cost savings on groceries",
            domain |-> "diet"] >>,
     implementation_timeline |->
        [immediate |-> << "Switch to LED lighting" >>,
         short_term |-> << "Use public transportation", "Reduce meat consumption" >>,
         medium_term |-> << >>,
         long_term |-> << >>],
     workflow_state |-> state,
     error |-> "Using fallback results due to workflow failure"]

\* _compile_final_results
compile_final_results(state) ==
    LET synthesis == state.synthesis_result
        evaluation == state.final_evaluation
        final_plan == Get(evaluation, "final_plan", EmptyDict)
    IN  IF ~Truthy(synthesis) \/ ~Truthy(evaluation)
        THEN get_fallback_results(state)
        ELSE [eco_score |->
                 Get(evaluation, "final_eco_score", Get(synthesis, "eco_score", 250)),
              total_carbon_footprint |-> Get(synthesis, "total_carbon_footprint", 1300),
              potential_reduction |->
                 Get(Get(Get(evaluation, "evaluation_results", EmptyDict),
                         "carbon_impact", EmptyDict),
                     "potential_reduction", 850),
              domain_breakdown |-> Get(synthesis, "domain_breakdown", EmptyDict),
              prioritized_actions |->
                 Get(final_plan, "final_actions",
                     Get(synthesis, "prioritized_actions", << >>)),
              implementation_timeline |->
                 Get(final_plan, "implementation_timeline", EmptyDict),
              synergies |-> Get(synthesis, "synergies", << >>),
              impact_analysis |-> Get(synthesis, "impact_analysis", EmptyDict),
              workflow_state |-> state,
              session_id |-> state.session_id]

\* the dict returned by the except branch of run_complete_analysis
\* an except branch that answers with the fallback results (a faulty variant
\* of error_result)
fallback_for_error(message, state) == get_fallback_results(state)

error_result(message, state) ==
    [error |-> "Workflow failed: " \o message,
     partial_results |-> state,
     eco_score |-> 250,
     total_carbon_footprint |-> 1250,
     prioritized_actions |->
        << [action |-> "Start with energy-efficient LED lighting",
            co2_reduction |-> "0.5 tons/year",
            feasibility |-> "high",
            cost_impact |-> "Low cost, immediate savings",
            domain |-> "home"] >>]

-----------------------------------------------------------------------------
(* EcoForgeWorkflow as a state machine: calls of run_complete_analysis, one  *)
(* after the other, on one workflow object.                                 *)

VARIABLES
    USE_MOCK_DATA,      \* Config.USE_MOCK_DATA, fixed when config.py is imported
    workflow_state,     \* self.workflow_state
    pc,                 \* the position of the running call, "idle" between calls
    calls,              \* number of calls made so far
    synthesis_result,   \* the local variable of run_complete_analysis
    outcomes,           \* the four domain tasks handed to asyncio.gather
    result,             \* what the last finished call returned
    stage,              \* history: how each step of the running call ended
    evaluations,        \* history: evaluations made by the running call
    appended,           \* history: refinement records appended by the running call
    written,            \* history: the call that last assigned each workflow_state key
    analyze_calls,      \* history: expert analyze() invocations of the running call
    returned_scores,    \* history: the eco_score last returned for each request text
    pstep,              \* the pipeline under test: the step reached
    pinput,             \*   the agent analyses and the user text
    psynthesis,         \*   the synthesizer's output
    pplan,              \*   the current plan (synthesis, then refined plans)
    precords,           \*   the refinement records so far
    pevaluation,        \*   the evaluator's output
    presult,            \*   the compiled result
    prepeat,            \*   the record of a refinement repeated on its own outcome
    estep,              \* an estimator under test: "input", then "analyzed"
    edomain,            \*   the domain of the estimator
    etext,              \*   the request text
    elocation,          \*   the location handed to analyze
    eresponse,          \*   what the weather service answers
    eanalysis           \*   the dict analyze returned

wvars == << USE_MOCK_DATA, workflow_state, pc, calls, synthesis_result, outcomes,
            result, stage, evaluations, appended, written, analyze_calls,
            returned_scores >>
pvars == << pstep, pinput, psynthesis, pplan, precords, pevaluation, presult, prepeat >>
evars == << estep, edomain, etext, elocation, eresponse, eanalysis >>
vars == << wvars, pvars, evars >>

\* number of run_complete_analysis calls explored on one workflow object
MaxCalls == 2

\* a request that mentions vegan, bike and Tokyo and names no car, and one
\* without any keyword the agents look for
VeganBikeText == "I am vegan, I bike to work in Tokyo"
PlainText == "Please tell me how I am doing"

\* the request texts run_complete_analysis is called with
CallTexts == { VeganBikeText, PlainText }

\* no call with the text has returned yet / the eco_score of the dict the
\* last call with the text returned, and whether that is the dict of the
\* except branch
NotReturned == [returned |-> FALSE, failed |-> FALSE]
ReturnedScore(returned_dict) ==
    [returned |-> TRUE, failed |-> "error" \in DOMAIN returned_dict,
     eco_score |-> returned_dict.eco_score]

\* the request texts the evaluator is handed
UserInputs ==
    { "I drive an SUV in Tokyo and eat steak",
      "I want cheap, easy, smart and eco friendly options" }

\* what the geocoder may return for a detected city: nothing, or a place
GeocodeResults == { None, [lat |-> 356762, lon |-> 1396503, country |-> "Japan"] }

\* str(e) of an exception raised by the environment inside a step
SimulatedFailure == "simulated failure"

Steps == {"supervisor", "synthesis", "refinement", "evaluation", "compile"}

StateKeys == {"session_id", "user_input", "supervisor_analysis", "domain_analyses",
              "synthesis_result", "refinement_history", "final_evaluation",
              "workflow_complete"}

Pending == [status |-> "pending"]
NotLaunched == [status |-> "idle"]
Returned(value) == [status |-> "done", raised |-> FALSE, value |-> value]
Raised(message) == [status |-> "done", raised |-> TRUE, value |-> message]

\* __init__
InitialWorkflowState ==
    [session_id |-> None,
     user_input |-> None,
     supervisor_analysis |-> None,
     domain_analyses |-> EmptyDict,
     synthesis_result |-> None,
     refinement_history |-> << >>,
     final_evaluation |-> None,
     workflow_complete |-> FALSE]

PipelineIdle ==
    /\ pstep = "unused"
    /\ pinput = None
    /\ psynthesis = None
    /\ pplan = None
    /\ precords = << >>
    /\ pevaluation = None
    /\ presult = None
    /\ prepeat = None

\* no estimator under test
ExpertIdle ==
    /\ estep = "unused"
    /\ edomain = NoneStr
    /\ etext = ""
    /\ elocation = EmptyDict
    /\ eresponse = WeatherFailed
    /\ eanalysis = None

Init ==
    /\ USE_MOCK_DATA \in BOOLEAN
    /\ workflow_state = InitialWorkflowState
    /\ pc = "idle"
    /\ calls = 0
    /\ synthesis_result = None
    /\ outcomes = [d \in Domains |-> NotLaunched]
    /\ result = None
    /\ stage = [s \in Steps |-> "not_started"]
    /\ evaluations = 0
    /\ appended = 0
    /\ written = [k \in StateKeys |-> 0]
    /\ analyze_calls = {}
    /\ returned_scores = [t \in CallTexts |-> NotReturned]
    /\ PipelineIdle
    /\ ExpertIdle

\* workflow_state[k] = v for each k of the record ws
Assign(ws) ==
    /\ workflow_state' = [k \in StateKeys |->
                             IF k \in DOMAIN ws THEN ws[k] ELSE workflow_state[k]]
    /\ written' = [k \in StateKeys |-> IF k \in DOMAIN ws THEN calls ELSE written[k]]

\* the except branch of run_complete_analysis, entered from step s
Except(s, message, state) ==
    /\ result' = error_result(message, state)
    /\ stage' = [stage EXCEPT ![s] = "raised"]
    /\ pc' = "idle"

\* history: when the step ends the call, the eco_score of the dict it returns
\* is noted for the text of the call
Recorded ==
    returned_scores' =
        IF pc # "idle" /\ pc' = "idle"
        THEN [returned_scores EXCEPT ![workflow_state.user_input] =
                 ReturnedScore(result')]
        ELSE returned_scores

\* run_complete_analysis(user_input), up to the first await
Call(user_input) ==
    /\ pc = "idle"
    /\ calls < MaxCalls
    /\ calls' = calls + 1
    /\ workflow_state' = [workflow_state EXCEPT !.session_id = calls + 1,
                                                !.user_input = user_input]
    /\ written' = [written EXCEPT !["session_id"] = calls + 1,
                                  !["user_input"] = calls + 1]
    /\ pc' = "supervisor"
    /\ synthesis_result' = None
    /\ outcomes' = [d \in Domains |-> NotLaunched]
    /\ result' = None
    /\ stage' = [s \in Steps |-> "not_started"]
    /\ evaluations' = 0
    /\ appended' = 0
    /\ analyze_calls' = {}
    /\ UNCHANGED << USE_MOCK_DATA, pvars, evars >>
    /\ Recorded

\* Step 1, and the creation of the four domain tasks
RunSupervisorAnalysis ==
    /\ pc = "supervisor"
    /\ \/ /\ \E geocoded \in GeocodeResults :
               Assign([supervisor_analysis |->
                          run_supervisor_analysis(USE_MOCK_DATA,
                                                  workflow_state.user_input, geocoded)])
          /\ stage' = [stage EXCEPT !["supervisor"] = "finished"]
          /\ outcomes' = [d \in Domains |-> Pending]
          /\ pc' = "domains"
          /\ UNCHANGED result
       \/ /\ Except("supervisor", SimulatedFailure, workflow_state)
          /\ UNCHANGED << workflow_state, written, outcomes >>
    /\ UNCHANGED << USE_MOCK_DATA, calls, synthesis_result, evaluations, appended,
                    analyze_calls, pvars, evars >>
    /\ Recorded


\* the analyses an expert's analyze() is taken to return in this development
SampleAnalyses(d) == { mock_analysis(d), get_fallback_analysis(d) }

\* one of the four coroutines _run_<domain>_analysis, run to its end.  Beside
\* the KeyError of the source, any of them may fail in the environment.
RunDomainAnalysis(d) ==
    /\ pc = "domains"
    /\ outcomes[d] = Pending
    /\ IF run_domain_analysis_raises(USE_MOCK_DATA, workflow_state.supervisor_analysis)
       THEN /\ outcomes' = [outcomes EXCEPT ![d] = Raised("'user_input'")]
            /\ UNCHANGED analyze_calls
       ELSE /\ analyze_calls' =
                  IF USE_MOCK_DATA THEN analyze_calls
                  ELSE analyze_calls \cup
                          { << d, workflow_state.supervisor_analysis["user_input"],
                               workflow_state.supervisor_analysis["location"] >> }
            /\ \/ \E value \in (IF USE_MOCK_DATA THEN { mock_analysis(d) }
                                ELSE SampleAnalyses(d)) :
                      outcomes' = [outcomes EXCEPT ![d] = Returned(value)]
               \/ outcomes' = [outcomes EXCEPT ![d] = Raised(SimulatedFailure)]
    /\ UNCHANGED << USE_MOCK_DATA, workflow_state, pc, calls, synthesis_result, result,
                    stage, evaluations, appended, written, pvars, evars >>
    /\ Recorded

\* asyncio.gather(*tasks, return_exceptions=True) returns when all four are done
GatherDone == \A d \in Domains : outcomes[d].status = "done"

\* the end of Step 2: the fan-in
CompileDomainResults ==
    /\ pc = "domains"
    /\ GatherDone
    /\ Assign([domain_analyses |-> compile_domain_results(outcomes)])
    /\ pc' = "synthesis"
    /\ UNCHANGED << USE_MOCK_DATA, calls, synthesis_result, outcomes, result, stage,
                    evaluations, appended, analyze_calls, pvars, evars >>
    /\ Recorded

\* the step that follows a finished synthesis
\* a run that goes from synthesis straight to compiling the result (a faulty
\* variant of AfterSynthesis)
SkipEvaluation(synthesis) == "compile"

AfterSynthesis(synthesis) == IF should_refine(synthesis) THEN "refinement" ELSE "evaluation"

\* Step 3
RunSynthesis ==
    /\ pc = "synthesis"
    /\ \E raises \in { USE_MOCK_DATA /\ mock_synthesis_raises(workflow_state.domain_analyses) },
          touched \in { domain_results_after_synthesis(USE_MOCK_DATA,
                                                       workflow_state.domain_analyses) } :
          \/ /\ raises
             /\ workflow_state' = [workflow_state EXCEPT !.domain_analyses = touched]
             /\ Except("synthesis", mock_synthesis_error(workflow_state.domain_analyses),
                       workflow_state')
             /\ UNCHANGED << written, synthesis_result >>
          \/ /\ ~raises
             /\ \E synthesis \in { run_synthesis(USE_MOCK_DATA,
                                                 workflow_state.domain_analyses) } :
                    /\ workflow_state' =
                           [workflow_state EXCEPT !.domain_analyses = touched,
                                                  !.synthesis_result = synthesis]
                    /\ synthesis_result' = synthesis
                    /\ pc' = AfterSynthesis(synthesis)
             /\ written' = [written EXCEPT !["synthesis_result"] = calls]
             /\ stage' = [stage EXCEPT !["synthesis"] = "finished"]
             /\ UNCHANGED result
          \/ /\ Except("synthesis", SimulatedFailure, workflow_state)
             /\ UNCHANGED << workflow_state, written, synthesis_result >>
    /\ UNCHANGED << USE_MOCK_DATA, calls, outcomes, evaluations, appended,
                    analyze_calls, pvars, evars >>
    /\ Recorded

\* Step 4
RunRefinementLoop ==
    /\ pc = "refinement"
    /\ \/ \E refinement_result \in
                  { run_refinement_loop(USE_MOCK_DATA, synthesis_result,
                                        workflow_state.refinement_history) } :
              /\ workflow_state' =
                     [workflow_state EXCEPT
                         !.refinement_history = Append(@, refinement_result),
                         !.synthesis_result =
                             synthesis_after_refinement(USE_MOCK_DATA, @, refinement_result)]
              /\ written' = [written EXCEPT !["refinement_history"] = calls]
              /\ synthesis_result' =
                     Get(refinement_result, "refined_plan", synthesis_result)
              /\ appended' = appended + 1
              /\ stage' = [stage EXCEPT !["refinement"] = "finished"]
              /\ pc' = "evaluation"
              /\ UNCHANGED result
       \/ /\ Except("refinement", SimulatedFailure, workflow_state)
          /\ UNCHANGED << workflow_state, written, synthesis_result, appended >>
    /\ UNCHANGED << USE_MOCK_DATA, calls, outcomes, evaluations, analyze_calls, pvars, evars >>
    /\ Recorded

\* the refinement history after the evaluator has extended, in place, the
\* actions of the plan it finalizes, when that plan is the last record's
HistoryAfterEvaluation(history, shared) ==
    IF shared
    THEN [history EXCEPT ![Len(history)] =
             With(@, "refined_plan", plan_after_evaluation(USE_MOCK_DATA, @.refined_plan))]
    ELSE history

\* the plan evaluated is the refined plan of the last record of the history
EvaluatesLastRecord(history) ==
    /\ history # << >>
    /\ "refined_plan" \in DOMAIN history[Len(history)]
    /\ \/ appended > 0
       \/ Get(history[Len(history)], "quality_score", 0) > 700

\* Step 5
RunFinalEvaluation ==
    /\ pc = "evaluation"
    /\ \E raises \in { run_final_evaluation_raises(USE_MOCK_DATA, synthesis_result,
                                                   workflow_state.refinement_history,
                                                   workflow_state.user_input) },
          shared \in { EvaluatesLastRecord(workflow_state.refinement_history) } :
          \/ /\ raises
             /\ Except("evaluation", "'action'", workflow_state)
             /\ UNCHANGED << workflow_state, written, evaluations >>
          \/ /\ ~raises
             /\ workflow_state' =
                    [workflow_state EXCEPT
                        !.final_evaluation =
                            run_final_evaluation(USE_MOCK_DATA, synthesis_result,
                                                 workflow_state.refinement_history,
                                                 workflow_state.user_input),
                        !.workflow_complete = TRUE,
                        !.refinement_history = HistoryAfterEvaluation(@, shared),
                        !.synthesis_result =
                            IF shared
                            THEN synthesis_after_evaluation(USE_MOCK_DATA, appended > 0,
                                                            @, synthesis_result)
                            ELSE plan_after_evaluation(USE_MOCK_DATA, @)]
             /\ written' = [written EXCEPT !["final_evaluation"] = calls,
                                           !["workflow_complete"] = calls]
             /\ evaluations' = evaluations + 1
             /\ stage' = [stage EXCEPT !["evaluation"] = "finished"]
             /\ pc' = "compile"
             /\ UNCHANGED result
          \/ /\ Except("evaluation", SimulatedFailure, workflow_state)
             /\ UNCHANGED << workflow_state, written, evaluations >>
    /\ UNCHANGED << USE_MOCK_DATA, calls, synthesis_result, outcomes, appended,
                    analyze_calls, pvars, evars >>
    /\ Recorded

\* return self._compile_final_results()
CompileFinalResults ==
    /\ pc = "compile"
    /\ \/ /\ result' = compile_final_results(workflow_state)
          /\ stage' = [stage EXCEPT !["compile"] = "finished"]
          /\ pc' = "idle"
       \/ Except("compile", SimulatedFailure, workflow_state)
    /\ UNCHANGED << USE_MOCK_DATA, workflow_state, calls, synthesis_result, outcomes,
                    evaluations, appended, written, analyze_calls, pvars, evars >>
    /\ Recorded

Next ==
    \/ \E user_input \in CallTexts : Call(user_input)
    \/ RunSupervisorAnalysis
    \/ \E d \in Domains : RunDomainAnalysis(d)
    \/ CompileDomainResults
    \/ RunSynthesis
    \/ RunRefinementLoop
    \/ RunFinalEvaluation
    \/ CompileFinalResults

Spec == Init /\ [][Next]_vars

-----------------------------------------------------------------------------
(* The Synthesizer -> Refiner -> Evaluator -> result pipeline on its own,   *)
(* applied to agent analyses the workflow's mock and fallback data do not   *)
(* reach: zero and very large footprints, efficiencies 0 and 1, and         *)
(* recommendations whose cost texts come from the experts.                  *)

\* an analysis as SynthesizerAgent.synthesize reads it, its recommendations
\* carrying action, saving and cost texts found in
\* TransportExpertAgent._recommend_alternatives,
\* HomeExpertAgent._generate_recommendations and
\* SynthesizerAgent._prioritize_interventions; none of the cost texts counts
\* as feasible in _assess_feasibility
sample_transport_analysis ==
    [agent_id |-> "transport_racer_002",
     carbon_footprint |-> 1230,
     efficiency_score |-> 20,
     key_findings |-> << "Extremely high transport emissions detected" >>,
     recommendations |->
        << [action |-> "Electric Vehicle",
            impact |-> "70-90%",
            priority |-> "high",
            co2_reduction |-> "3-8 tons CO2",
            cost_impact |-> "High initial, excellent ROI"],
           [action |-> "High-speed rail for regional travel",
            impact |-> "85-95%",
            priority |-> "high",
            co2_reduction |-> "10-50 tons CO2",
            cost_impact |-> "Often comparable to flights"],
           [action |-> "Install solar panels",
            impact |-> "Reduce home emissions by 70-90%",
            priority |-> "high",
            co2_reduction |-> "8-12 tons/year",
            cost_impact |-> "High initial investment, 6-8 year payback"] >>]

\* the analyses explored: the transport analysis varies on its own, the other
\* three domains together
TransportKinds == {"fallback", "mock", "sample"}
OtherKinds == {"fallback", "mock", "bare"}

\* an analysis with the keys the synthesizer reads from what the experts'
\* analyze() returns, which has no "recommendations"; the numbers are those
\* TransportExpertAgent gives a text that names no vehicle
bare_analysis ==
    [carbon_footprint |-> 197, efficiency_score |-> 40, key_findings |-> << >>]

AnalysisOfKind(d, kind) ==
    IF kind = "mock" THEN mock_analysis(d)
    ELSE IF kind = "fallback" THEN get_fallback_analysis(d)
    ELSE IF kind = "bare" THEN bare_analysis
    ELSE sample_transport_analysis

\* a very large footprint, in hundredths of a ton
HugeFootprint == 100000

\* the largest efficiency, 1.0, in hundredths
FullEfficiency == 100

\* what is done to a field of every analysis: kept, or set to a value
Keep == [set |-> FALSE]
Set(v) == [set |-> TRUE, value |-> v]

\* << what is done to carbon_footprint, what is done to efficiency_score >>
Overrides ==
    { << Keep, Keep >>,
      << Set(0), Set(0) >>,
      << Set(0), Set(FullEfficiency) >>,
      << Set(HugeFootprint), Set(0) >>,
      << Set(HugeFootprint), Set(FullEfficiency) >> }

\* the refinements applied in sequence to one plan
MaxRefinements == 2

Override(analysis, key, o) ==
    IF o.set THEN With(analysis, key, o.value) ELSE analysis

PipelineInput(transport, others, override) ==
    [d \in Domains |->
        Override(Override(AnalysisOfKind(d, IF d = "transport" THEN transport ELSE others),
                          "carbon_footprint", override[1]),
                 "efficiency_score", override[2])]

\* request texts whose four expert analyses are explored as well: a large
\* car and no renewables, a luxury car and daily shopping, an electric car
\* with solar panels, a car with solar panels, a vegan cyclist, and a text
\* without any keyword
RequestTexts ==
    { "I drive an suv and live in an old house",
      "I drive a ferrari and shop every day",
      "I drive a tesla and have solar panels",
      "I have solar panels and a car",
      VeganBikeText,
      PlainText }

\* the location _extract_location falls back to
DefaultLocation == [city |-> "Tokyo", country |-> "Japan"]

\* what the four experts' analyze return for one text (the weather request
\* failing)
ExpertAnalyses(user_input) ==
    [d \in Domains |->
        CASE d = "home" -> home_analyze(user_input, DefaultLocation, WeatherFailed)
          [] d = "transport" -> transport_analyze(user_input, DefaultLocation)
          [] d = "diet" -> diet_analyze(user_input, DefaultLocation)
          [] d = "shopping" -> shopping_analyze(user_input, DefaultLocation)]

\* analyses that recommend nothing and leave no synergy open: the plan
\* synthesized from them has no action
settled_analyses ==
    [d \in Domains |->
        CASE d = "home" ->
               With(bare_analysis, "energy_patterns", [renewable_energy |-> TRUE])
          [] d = "transport" ->
               With(bare_analysis, "transport_patterns", [primary_vehicle |-> "electric"])
          [] d = "diet" ->
               With(bare_analysis, "dietary_patterns", [organic_preference |-> TRUE])
          [] d = "shopping" ->
               With(bare_analysis, "shopping_patterns",
                    [second_hand_preference |-> TRUE, shopping_frequency |-> "monthly"])]

\* analyses whose plan, once refined, passes all four validation checks
thrifty_analyses ==
    [d \in Domains |->
        CASE d = "home" -> home_analyze("", DefaultLocation, WeatherFailed)
          [] d = "transport" -> mock_analysis("transport")
          [] d = "diet" -> get_fallback_analysis("diet")
          [] d = "shopping" -> shopping_analyze("designer thrift", DefaultLocation)]

ValidationInputs == { settled_analyses, thrifty_analyses }

PInit ==
    /\ USE_MOCK_DATA = FALSE
    /\ workflow_state = InitialWorkflowState
    /\ pc = "idle"
    /\ calls = 0
    /\ synthesis_result = None
    /\ outcomes = [d \in Domains |-> NotLaunched]
    /\ result = None
    /\ stage = [s \in Steps |-> "not_started"]
    /\ evaluations = 0
    /\ appended = 0
    /\ written = [k \in StateKeys |-> 0]
    /\ analyze_calls = {}
    /\ returned_scores = [t \in CallTexts |-> NotReturned]
    /\ pstep = "input"
    /\ \/ \E transport \in TransportKinds, others \in OtherKinds, override \in Overrides :
             pinput = PipelineInput(transport, others, override)
       \/ \E user_input \in RequestTexts : pinput = ExpertAnalyses(user_input)
       \/ pinput \in ValidationInputs
    /\ psynthesis = None
    /\ pplan = None
    /\ precords = << >>
    /\ pevaluation = None
    /\ presult = None
    /\ prepeat = None
    /\ ExpertIdle

\* SynthesizerAgent.synthesize(agent_analyses)
PSynthesize ==
    /\ pstep = "input"
    /\ \E synthesis \in { synthesize(pinput) } :
          /\ psynthesis' = synthesis
          /\ pplan' = synthesis
    /\ pstep' = "synthesized"
    /\ UNCHANGED << wvars, evars, prepeat, pinput, precords, pevaluation, presult >>

\* the records whose refined plans share action dicts with a plan handed to
\* refine_plan, as the call leaves them
RecordsAfterRefinement(records, record) ==
    [j \in 1..Len(records) |->
        With(records[j], "refined_plan",
             plan_after_refinement(records[j].refined_plan, record))]

\* RefinerLoopAgent.refine_plan(plan, previous records); the refined plan is
\* the plan handed on, as in _run_refinement_loop.  The plan handed in, the
\* synthesis and the earlier refined plans share the dicts of the actions
\* that went through unreplaced.
PRefine ==
    /\ pstep \in {"synthesized", "refined"}
    /\ Len(precords) < MaxRefinements
    /\ \E record \in { refine_plan(pplan, precords) } :
          /\ precords' = Append(RecordsAfterRefinement(precords, record), record)
          /\ psynthesis' = plan_after_refinement(psynthesis, record)
          /\ pplan' = record.refined_plan
    /\ pstep' = "refined"
    /\ UNCHANGED << wvars, evars, prepeat, pinput, pevaluation, presult >>

\* the records whose refined plans share action dicts with the plan
\* _finalize_action_list is handed, as the call leaves them
RecordsAfterFinalizing(records, base_plan) ==
    [j \in 1..Len(records) |->
        With(records[j], "refined_plan",
             plan_after_finalizing(records[j].refined_plan, base_plan))]

\* EvaluatorAgent.evaluate_and_finalize on the input _run_final_evaluation
\* builds; the plan handed in is the synthesis or the last record's refined
\* plan, and _finalize_action_list extends its actions in place
PEvaluate(user_input) ==
    /\ pstep \in {"synthesized", "refined"}
    /\ ~evaluate_and_finalize_raises(EvaluationInput(pplan, precords, user_input))
    /\ \E evaluation \in { evaluate_and_finalize(EvaluationInput(pplan, precords, user_input)) } :
          pevaluation' = evaluation
    /\ \E base_plan \in { BasePlan(pplan, precords) } :
          /\ pplan' = plan_after_finalizing(pplan, base_plan)
          /\ psynthesis' = plan_after_finalizing(psynthesis, base_plan)
          /\ precords' = RecordsAfterFinalizing(precords, base_plan)
    /\ pstep' = "evaluated"
    /\ UNCHANGED << wvars, evars, prepeat, pinput, presult >>

\* _compile_final_results on the state the workflow holds after evaluation
PCompile ==
    /\ pstep = "evaluated"
    /\ presult' = compile_final_results(
                      [InitialWorkflowState EXCEPT !.synthesis_result = psynthesis,
                                                   !.refinement_history = precords,
                                                   !.final_evaluation = pevaluation,
                                                   !.workflow_complete = TRUE])
    /\ pstep' = "compiled"
    /\ UNCHANGED << wvars, evars, prepeat, pinput, psynthesis, pplan, precords, pevaluation >>

\* refine_plan called once more on the refined plan the last call returned,
\* with the history that call was given
PRefineAgain ==
    /\ pstep = "refined"
    /\ \E record \in { refine_plan(pplan, SubSeq(precords, 1, Len(precords) - 1)) } :
          /\ prepeat' = record
          /\ precords' = RecordsAfterRefinement(precords, record)
          /\ psynthesis' = plan_after_refinement(psynthesis, record)
          /\ pplan' = plan_after_refinement(pplan, record)
    /\ pstep' = "repeated"
    /\ UNCHANGED << wvars, evars, pinput, pevaluation, presult >>

PNext ==
    \/ PSynthesize
    \/ PRefine
    \/ PRefineAgain
    \/ \E user_input \in UserInputs : PEvaluate(user_input)
    \/ PCompile

PipeSpec == PInit /\ [][PNext]_vars

-----------------------------------------------------------------------------
(* The refinement loop over successive runs of one workflow object:         *)
(* workflow_state["refinement_history"] is never reset, so the k-th run     *)
(* hands refine_plan its fresh synthesis together with the records of the   *)
(* k - 1 runs before it (workflow.py lines 66-70 and 451).  The runs here   *)
(* repeat one request, so the synthesizer returns the same synthesis in     *)
(* each: psynthesis.  The synthesis of a run is kept in                     *)
(* workflow_state["synthesis_result"] (line 64), where it shows what the    *)
(* refinement did to its actions in place.                                  *)

\* the runs whose records the history holds
MaxHistory == 4

\* refine_plan(synthesis_result, refinement_history) and the append of its
\* record to the history
RRefine ==
    /\ pstep \in {"synthesized", "refined"}
    /\ Len(precords) < MaxHistory
    /\ \E record \in { refine_plan(psynthesis, precords) } :
          /\ precords' = Append(precords, record)
          /\ pplan' = record.refined_plan
          /\ workflow_state' =
                 [workflow_state EXCEPT !.synthesis_result =
                     plan_after_refinement(psynthesis, record)]
    /\ pstep' = "refined"
    /\ UNCHANGED << USE_MOCK_DATA, pc, calls, synthesis_result, outcomes, result,
                    stage, evaluations, appended, written, analyze_calls,
                    returned_scores, evars, prepeat, pinput, psynthesis, pevaluation,
                    presult >>

RNext ==
    \/ PSynthesize
    \/ RRefine

RefineSpec == PInit /\ [][RNext]_vars

-----------------------------------------------------------------------------
(* The dependency analysis on its own: _apply_sequencing_refinement on      *)
(* action lists put together from texts that match the keywords of one     *)
(* bucket, of two buckets, or of none.  Only the text of an action is read. *)

\* "Walk or bike to local shops" matches the foundation keywords walk and
\* bike and the lifestyle keyword local; the other texts are the estimators'
SequencingTexts ==
    { "Install smart thermostat and LED lighting",
      "Install solar panels",
      "Reduce meat consumption",
      "Use public transportation",
      "Walk or bike to local shops" }

\* the longest action list handed to the dependency analysis
MaxActions == 3

ActionLists ==
    UNION { [1..n -> { [action |-> text] : text \in SequencingTexts }] : n \in 0..MaxActions }

SInit ==
    /\ USE_MOCK_DATA = FALSE
    /\ workflow_state = InitialWorkflowState
    /\ pc = "idle"
    /\ calls = 0
    /\ synthesis_result = None
    /\ outcomes = [d \in Domains |-> NotLaunched]
    /\ result = None
    /\ stage = [s \in Steps |-> "not_started"]
    /\ evaluations = 0
    /\ appended = 0
    /\ written = [k \in StateKeys |-> 0]
    /\ analyze_calls = {}
    /\ returned_scores = [t \in CallTexts |-> NotReturned]
    /\ pstep = "listed"
    /\ \E actions \in ActionLists : pinput = [prioritized_actions |-> actions]
    /\ psynthesis = None
    /\ pplan = None
    /\ precords = << >>
    /\ pevaluation = None
    /\ presult = None
    /\ prepeat = None
    /\ ExpertIdle

\* _apply_sequencing_refinement(plan, opportunity); the opportunity is not read
ApplySequencing ==
    /\ pstep = "listed"
    /\ pplan' = apply_sequencing_refinement(pinput, EmptyDict)
    /\ pstep' = "sequenced"
    /\ UNCHANGED << wvars, evars, prepeat, pinput, psynthesis, precords, pevaluation, presult >>

SNext == ApplySequencing

SequencingSpec == SInit /\ [][SNext]_vars

-----------------------------------------------------------------------------
(* The four domain estimators on their own: one analyze call on a request   *)
(* text put together from the keywords the estimator's pattern extraction   *)
(* looks for, so that every pattern record the extraction can produce      *)
(* occurs.  (In the workflow the estimators are out of reach, see          *)
(* RunDomainAnalysis.)                                                      *)

\* the words of a phrase list joined by single spaces, empty phrases left out
RECURSIVE Words(_)
Words(phrases) ==
    IF phrases = << >> THEN ""
    ELSE LET rest == Words(Tail(phrases))
         IN  IF Head(phrases) = "" THEN rest
             ELSE IF rest = "" THEN Head(phrases)
             ELSE Head(phrases) \o " " \o rest

\* one phrase per pattern field: "" leaves the field at its default
HomeTexts ==
    { Words(<< size, efficiency, renewable >>) :
        size \in {"", "mansion", "studio"},
        efficiency \in {"", "heat pump", "incandescent", "typical"},
        renewable \in {"", "wind", "solar panels"} }

TransportTexts ==
    { Words(<< vehicle, flights, distance >>) :
        vehicle \in {"", "private jet", "helicopter", "ferrari", "suv", "prius", "tesla",
                     "bike", "car"},
        flights \in {"", "fly daily", "fly weekly", "travel"},
        distance \in {"", "0 km", "80 km", "200 miles"} }

MeatTexts ==
    { Words(<< beef, pork, chicken, fish >>) :
        beef \in {"", "steak"}, pork \in {"", "bacon"},
        chicken \in {"", "chicken"}, fish \in {"", "salmon"} }

DietTexts ==
    { Words(<< diet, meats, frequency, luxury, organic >>) :
        diet \in {"", "vegan", "vegetarian", "pescatarian", "meat"},
        meats \in MeatTexts,
        frequency \in {"", "weekly", "rarely"},
        luxury \in {"", "caviar"},
        organic \in {"", "organic"} }

ShoppingTexts ==
    { Words(<< luxury, fashion, tech, second_hand, frequency >>) :
        luxury \in {"", "designer"},
        fashion \in {"", "trendy"},
        tech \in {"", "upgrade"},
        second_hand \in {"", "thrift"},
        frequency \in {"", "shop every day", "once a month"} }

ExpertTexts(d) ==
    CASE d = "home" -> HomeTexts
      [] d = "transport" -> TransportTexts
      [] d = "diet" -> DietTexts
      [] d = "shopping" -> ShoppingTexts

\* locations as SupervisorAgent._extract_location builds them (lat and lon,
\* which only address the weather request, left out); "Unknown" is the
\* country of a place geocoded without an address
ExpertLocations ==
    { [city |-> "Tokyo", country |-> "Japan"],
      [city |-> "Paris", country |-> "France"],
      [city |-> "Berlin", country |-> "Unknown"] }

\* answers of the weather service; only the home estimator asks
WeatherResponses(d) ==
    IF d = "home"
    THEN { WeatherFailed, WeatherReport(-20), WeatherReport(20), WeatherReport(40) }
    ELSE { WeatherFailed }

EInit ==
    /\ USE_MOCK_DATA = FALSE
    /\ workflow_state = InitialWorkflowState
    /\ pc = "idle"
    /\ calls = 0
    /\ synthesis_result = None
    /\ outcomes = [d \in Domains |-> NotLaunched]
    /\ result = None
    /\ stage = [s \in Steps |-> "not_started"]
    /\ evaluations = 0
    /\ appended = 0
    /\ written = [k \in StateKeys |-> 0]
    /\ analyze_calls = {}
    /\ returned_scores = [t \in CallTexts |-> NotReturned]
    /\ PipelineIdle
    /\ estep = "input"
    /\ edomain \in Domains
    /\ etext \in ExpertTexts(edomain)
    /\ elocation \in ExpertLocations
    /\ eresponse \in WeatherResponses(edomain)
    /\ eanalysis = None

Analyzed(analysis) ==
    /\ eanalysis' = analysis
    /\ estep' = "analyzed"
    /\ UNCHANGED << wvars, pvars, edomain, etext, elocation, eresponse >>

\* HomeExpertAgent.analyze
AnalyzeHome ==
    /\ estep = "input"
    /\ edomain = "home"
    /\ Analyzed(home_analyze(etext, elocation, eresponse))

\* TransportExpertAgent.analyze
AnalyzeTransport ==
    /\ estep = "input"
    /\ edomain = "transport"
    /\ Analyzed(transport_analyze(etext, elocation))

\* DietExpertAgent.analyze
AnalyzeDiet ==
    /\ estep = "input"
    /\ edomain = "diet"
    /\ Analyzed(diet_analyze(etext, elocation))

\* ShoppingExpertAgent.analyze
AnalyzeShopping ==
    /\ estep = "input"
    /\ edomain = "shopping"
    /\ Analyzed(shopping_analyze(etext, elocation))

ENext == AnalyzeHome \/ AnalyzeTransport \/ AnalyzeDiet \/ AnalyzeShopping

ExpertSpec == EInit /\ [][ENext]_vars

-----------------------------------------------------------------------------
(* Properties of the workflow, under Spec                                   *)

\* the state dict a finished call handed back, inside its result
ReturnedState ==
    IF "error" \in DOMAIN result THEN result.partial_results
    ELSE Get(result, "workflow_state", workflow_state)

\* a call has finished and its result is in hand
CallReturned == pc = "idle" /\ calls > 0

\* C1: run_complete_analysis never raises: every finished call returned a
\* dict, and whenever the supervisor, synthesis, refinement, evaluation or
\* result-compilation step raised, that dict has an 'error' entry, eco_score
\* 25, total_carbon_footprint 12.5 and exactly one prioritized action.
C1_FailureGivesErrorResult ==
    /\ CallReturned => result # None
    /\ \A s \in Steps :
          (CallReturned /\ stage[s] = "raised") =>
              /\ "error" \in DOMAIN result
              /\ result.eco_score = 250
              /\ result.total_carbon_footprint = 1250
              /\ Len(result.prioritized_actions) = 1

\* a call whose result compilation, the last step, raised
C1_Witness ==
    /\ CallReturned
    /\ stage["compile"] = "raised"
    /\ stage["evaluation"] = "finished"
    /\ "error" \in DOMAIN result

ResultKeys ==
    {"eco_score", "total_carbon_footprint", "domain_breakdown",
     "prioritized_actions", "implementation_timeline"}

\* C2: every result a call returns, on success and on every failure path,
\* contains eco_score, total_carbon_footprint, domain_breakdown,
\* prioritized_actions and implementation_timeline.
C2_ResultHasAllKeys == CallReturned => ResultKeys \subseteq DOMAIN result

C4_ExpertsInvoked ==
    (~USE_MOCK_DATA /\ pc = "synthesis") =>
        \A d \in Domains :
            << d, workflow_state.user_input,
               workflow_state.supervisor_analysis.analysis.location >> \in analyze_calls

\* C5: the refinement history handed to the refiner and to the evaluator
\* during a run holds only records of that run: it is empty when the run
\* starts, the run's first refinement has iteration 1, and without a
\* refinement the evaluator gets an empty history.
C5_HistoryOfThisRunOnly ==
    pc # "idle" =>
        /\ Len(workflow_state.refinement_history) = appended
        /\ appended = 1 => workflow_state.refinement_history[1].iteration = 1

\* C6: the workflow state returned with a run holds only data of that run:
\* every entry was assigned by this run or still has its constructor value,
\* the history has this run's records only, and workflow_complete is true
\* only if this run finished its evaluation.
C6_ReturnedStateOfThisRunOnly ==
    CallReturned =>
        /\ \A k \in StateKeys : written[k] \in {0, calls}
        /\ Len(ReturnedState.refinement_history) = appended
        /\ ReturnedState.workflow_complete => stage["evaluation"] = "finished"

\* C7: within a run the stages follow one another in a fixed order without
\* overlap: no domain task exists before the supervisor step finished,
\* synthesis starts only when all four tasks are done, refinement only after
\* synthesis finished, evaluation only after synthesis and any refinement
\* finished, and a run that completes has evaluated exactly once.
C7_StageOrder ==
    /\ (\E d \in Domains : outcomes[d] # NotLaunched) => stage["supervisor"] = "finished"
    /\ (pc = "synthesis" \/ stage["synthesis"] # "not_started") => GatherDone
    /\ (pc = "domains") =>
          \A s \in Steps \ {"supervisor"} : stage[s] = "not_started"
    /\ (pc = "refinement" \/ stage["refinement"] # "not_started") =>
          /\ stage["synthesis"] = "finished"
          /\ pc = "refinement" => stage["evaluation"] = "not_started"
    /\ (pc = "evaluation" \/ stage["evaluation"] # "not_started") =>
          /\ stage["synthesis"] = "finished"
          /\ stage["refinement"] \in {"not_started", "finished"}
          /\ stage["refinement"] = "finished" <=> appended = 1
    /\ pc = "evaluation" => evaluations = 0
    /\ evaluations <= 1
    /\ (pc = "compile" \/ stage["compile"] # "not_started") =>
          /\ evaluations = 1
          /\ stage["evaluation"] = "finished"

\* a run that refined, evaluated and completed
C7_Witness ==
    /\ CallReturned
    /\ stage["compile"] = "finished"
    /\ stage["refinement"] = "finished"
    /\ evaluations = 1

\* C15: run_complete_analysis on a text mentioning vegan, bike and Tokyo
\* and no car returns an eco_score strictly greater than the one it returns
\* for a text without distinguishing keywords: the score depends on the text.
\* (Calls that ended in the except branch are left aside.)
ReturnedNormally(user_input) ==
    returned_scores[user_input].returned /\ ~returned_scores[user_input].failed

C15_ScoreDependsOnText ==
    (ReturnedNormally(VeganBikeText) /\ ReturnedNormally(PlainText)) =>
        returned_scores[VeganBikeText].eco_score > returned_scores[PlainText].eco_score

\* the texts of a list of actions
ActionTexts(actions) == [i \in 1..Len(actions) |-> actions[i].action]

\* this run refined, and its refinement's quality_score is at most 0.7
RefinedBelowThreshold ==
    /\ CallReturned
    /\ stage["compile"] = "finished"
    /\ appended = 1
    /\ LET history == workflow_state.refinement_history
       IN  Get(history[Len(history)], "quality_score", 0) <= 700

\* C18: the final actions are built from the refined plan only if the latest
\* refinement's quality_score is greater than 0.7: a run that refines and
\* obtains a quality_score <= 0.7 returns as final actions the first (at most
\* six) prioritized_actions of the original, unrefined synthesis.
C18_LowQualityKeepsOriginal ==
    RefinedBelowThreshold =>
        ActionTexts(result.prioritized_actions)
          = ActionTexts(TopActions(PlanActions(workflow_state.synthesis_result)))

\* eco_score (in tenths) and synthesis_confidence (in hundredths) on either
\* side of the two thresholds of the decision to refine
ThresholdScores == {599, 600}
ThresholdConfidences == {69, 70}

BelowRefinementThresholds(synthesis) ==
    \/ synthesis.eco_score < 600
    \/ synthesis.synthesis_confidence < 70

HistoryLength(state) == Len(state.refinement_history)

\* what a step must change to be a step of the run or of the history
RefinementView == << pc, appended, HistoryLength(workflow_state) >>

\* C27: a run enters the refinement step at most once, from the synthesis
\* step, and exactly when its synthesis has eco_score < 60 or
\* synthesis_confidence < 0.7; the refinement history grows by the one record
\* of that step when the step returns, and at no other step.
C27_RefinementOncePerRun ==
    [][/\ (pc = "synthesis" /\ pc' \notin {"synthesis", "idle"}) =>
              /\ {"eco_score", "synthesis_confidence"} \subseteq DOMAIN synthesis_result'
              /\ (pc' = "refinement") <=> BelowRefinementThresholds(synthesis_result')
       /\ pc' = "refinement" => pc \in {"synthesis", "refinement"}
       /\ pc = "refinement" => pc' \in {"refinement", "evaluation", "idle"}
       /\ HistoryLength(workflow_state') =
              HistoryLength(workflow_state)
                + (IF pc = "refinement" /\ pc' = "evaluation" THEN 1 ELSE 0)
       /\ appended' <= 1
       /\ \A eco_score \in ThresholdScores, synthesis_confidence \in ThresholdConfidences :
              \A synthesis \in { [eco_score |-> eco_score,
                                  synthesis_confidence |-> synthesis_confidence] } :
                  (AfterSynthesis(synthesis) = "refinement")
                      <=> BelowRefinementThresholds(synthesis)
      ]_RefinementView

\* the second run of a workflow has refined a synthesis of eco_score < 60
\* and confidence of at least 0.7, and the history holds the records of both
\* runs
C27_Witness ==
    /\ calls = 2
    /\ pc = "evaluation"
    /\ stage["refinement"] = "finished"
    /\ appended = 1
    /\ HistoryLength(workflow_state) = 2
    /\ workflow_state.synthesis_result.eco_score < 600
    /\ workflow_state.synthesis_result.synthesis_confidence >= 70

-----------------------------------------------------------------------------
(* Properties of the pipeline, under PipeSpec                               *)

Synthesized == pstep # "input"
Evaluated == pstep \in {"evaluated", "compiled"}

\* C8: the synthesizer's prioritized_actions never has more than 8 entries,
\* and the evaluator's final_actions, which the result returns as its
\* prioritized_actions, never has more than 6.
C8_ActionListsBounded ==
    /\ Synthesized => Len(psynthesis.prioritized_actions) <= 8
    /\ Evaluated => Len(pevaluation.final_plan.final_actions) <= 6
    /\ pstep = "compiled" =>
          /\ presult.prioritized_actions = pevaluation.final_plan.final_actions
          /\ Len(presult.prioritized_actions) <= 6

\* a result of six actions, cut from a synthesis of eight actions that the
\* evaluator received as it was
C8_Witness ==
    /\ pstep = "compiled"
    /\ precords = << >>
    /\ Len(psynthesis.prioritized_actions) = 8
    /\ Len(PlanActions(pplan)) = 8
    /\ Len(presult.prioritized_actions) = 6

\* the plan the i-th refinement started from
RefinedFrom(i) == IF i = 1 THEN psynthesis ELSE precords[i - 1].refined_plan

\* the sum over the five quality metrics of (refined - original), times the
\* product of the two assessments' denominators
ImprovementSum(i) ==
    LET original == assess_plan_quality(RefinedFrom(i))
        refined == assess_plan_quality(precords[i].refined_plan)
    IN  SumSeq([k \in 1..Len(QualityMetrics) |->
                   refined[QualityMetrics[k]] * original.den
                 - original[QualityMetrics[k]] * refined.den])

\* that product: the mean improvement is ImprovementSum / (5 * ImprovementDen)
ImprovementDen(i) ==
    assess_plan_quality(RefinedFrom(i)).den
  * assess_plan_quality(precords[i].refined_plan).den

\* C9: in every record refine_plan returns, validation_passed is true exactly
\* when the mean over the five quality metrics of (refined - original) is
\* greater than 0, significant_improvement exactly when it is greater than
\* 0.1, and so significant_improvement implies validation_passed.  Each
\* record is examined in the state in which refine_plan has just returned it.
C9_ValidationFollowsImprovement ==
    pstep = "refined" =>
        LET i == Len(precords)
            validation == precords[i].improvement_validation
        IN  /\ validation.validation_passed <=> ImprovementSum(i) > 0
            /\ validation.significant_improvement <=>
                  10 * ImprovementSum(i) > 5 * ImprovementDen(i)
            /\ validation.significant_improvement => validation.validation_passed

\* a first refinement that improved the plan significantly, followed by one
\* that did not improve it
C9_Witness ==
    /\ pstep = "refined"
    /\ Len(precords) = 2
    /\ precords[1].improvement_validation.significant_improvement
    /\ precords[1].improvement_validation.validation_passed
    /\ ~precords[2].improvement_validation.validation_passed

\* every analysis has a footprint >= 0 and an efficiency within [0, 1]
InputInRange ==
    \A d \in Domains :
        /\ pinput[d].carbon_footprint >= 0
        /\ pinput[d].efficiency_score \in 0..100

\* C10: for analyses with footprints >= 0 and efficiencies in [0, 1], the
\* all-zero and the very large footprints included, the synthesizer's
\* eco_score and the evaluator's final_eco_score lie within [0, 100].
C10_ScoresWithinRange ==
    InputInRange =>
        /\ Synthesized => psynthesis.eco_score \in 0..1000
        /\ Evaluated => pevaluation.final_eco_score \in 0..1000

\* all footprints zero and all efficiencies 1: both scores are at the top
C10_Witness ==
    /\ Evaluated
    /\ \A d \in Domains :
          pinput[d].carbon_footprint = 0 /\ pinput[d].efficiency_score = FullEfficiency
    /\ psynthesis.eco_score = 1000
    /\ pevaluation.final_eco_score = 1000

\* the points the alignment score adds to the final EcoScore, in tenths:
\* alignment_score * 15
AlignmentBonus(user_alignment) ==
    LET alignment_score == Get(user_alignment, "alignment_score", Frac(1, 2))
    IN  RoundDiv(150 * alignment_score.num, alignment_score.den)

\* C11: for every user text and every plan the evaluator's alignment score
\* is a fraction within [0, 1], so the bonus it adds to the final EcoScore
\* (alignment score * 15) never exceeds 15.
C11_AlignmentWithinUnit ==
    Evaluated =>
        LET score == pevaluation.user_alignment.alignment_score
        IN  /\ 0 <= score.num
            /\ score.num <= score.den
            /\ AlignmentBonus(pevaluation.user_alignment) <= 150

\* the synthesis object a step of the pipeline handed to refine_plan or to
\* evaluate_and_finalize, as the call left it: after a refinement it is the
\* synthesis or the refined plan of the record before, otherwise it is the
\* plan still held
SynthesisAsLeft ==
    IF pstep' = "refined" /\ pstep' # pstep
    THEN IF precords = << >> THEN psynthesis' ELSE precords'[Len(precords)].refined_plan
    ELSE pplan'

\* C26: a call of refine_plan or of evaluate_and_finalize leaves the
\* synthesis it was handed as it was: the same prioritized_actions, every
\* action with the same fields and values.
C26_SynthesisPassedByValue ==
    [][pstep' \in {"refined", "repeated", "evaluated"} => SynthesisAsLeft = pplan]_vars

\* the plan the evaluator may be handed next
Evaluable == pstep \in {"synthesized", "refined"}

FeasibilityOf(action) == Get(action, "feasibility", "medium")

\* C28: every action of a plan that can reach the evaluator - as the
\* synthesizer made it from a recommendation or from a synergy, or as the
\* refinement strategies left it - has the feasibility high, medium or low,
\* so the evaluator's tally of feasibilities finds its counter.
C28_FeasibilityKnown ==
    Evaluable =>
        /\ \A i \in 1..Len(PlanActions(pplan)) :
              FeasibilityOf(PlanActions(pplan)[i]) \in FeasibilityLevels
        /\ ~evaluate_feasibility_raises(pplan)

\* a twice refined plan that holds a synergy intervention, a sub-action of a
\* decomposition and an action of a domain estimator, after the low
\* feasibilities of the synthesis were decomposed away
C28_Witness ==
    /\ pstep = "refined"
    /\ Len(precords) = 2
    /\ \E i \in 1..Len(PlanActions(psynthesis)) :
          FeasibilityOf(PlanActions(psynthesis)[i]) = "low"
    /\ \A actions \in { PlanActions(pplan) } :
          /\ \E i \in 1..Len(actions) : actions[i].domain = "cross_domain"
          /\ \E i \in 1..Len(actions) :
                /\ ~InList(actions[i], PlanActions(psynthesis))
                /\ actions[i].domain # "cross_domain"
          /\ \E i \in 1..Len(actions) :
                /\ InList(actions[i], PlanActions(psynthesis))
                /\ actions[i].domain # "cross_domain"
          /\ {"high", "medium"} \subseteq {FeasibilityOf(actions[i]) : i \in 1..Len(actions)}

\* the priorities the estimators' recommendations carry, and the urgencies
\* _assess_urgency returns
RecommendationPriorities == {"high", "medium", "low"}

RecommendationUrgencies == {"critical", "high", "medium"}

SynergyMultipliers == {13, 14, 15}

IsSynergyAction(action) == action.domain = "cross_domain"

\* the interventions collected before the sort and the cut
Collected == all_interventions(pinput, Get(psynthesis, "synergies", << >>))

\* C29: a synergy intervention scores above every score an estimator's
\* recommendation can get, so the synergies found (three at most) are the
\* first of the synthesizer's prioritized actions and the cut to eight
\* interventions removes none of them.
C29_SynergiesLead ==
    /\ \A priority \in RecommendationPriorities, feasibility \in FeasibilityLevels,
          urgency \in RecommendationUrgencies, multiplier \in SynergyMultipliers :
          calculate_priority_score([priority |-> priority, feasibility |-> feasibility,
                                    urgency |-> urgency])
            < calculate_priority_score(
                  SynergyIntervention([description |-> "", combined_impact |-> "",
                                       synergy_multiplier |-> multiplier]))
    /\ pstep = "synthesized" =>
          \A synergies \in { Get(psynthesis, "synergies", << >>) },
             actions \in { PlanActions(psynthesis) } :
             /\ \A d \in DOMAIN pinput :
                   \A i \in 1..Len(Get(pinput[d], "recommendations", << >>)) :
                      Get(pinput[d].recommendations[i], "priority", "medium")
                          \in RecommendationPriorities
             /\ Len(synergies) <= 3
             /\ Len(actions) >= Len(synergies)
             /\ \A i \in 1..Len(actions) :
                   IsSynergyAction(actions[i]) <=> i <= Len(synergies)
             /\ \A k \in 1..Len(synergies) :
                   InList(SynergyIntervention(synergies[k]), actions)

\* two synergies synthesized with more than eight interventions collected,
\* the first of them a recommendation and one of them a recommendation with
\* the highest score a recommendation gets
C29_Witness ==
    /\ pstep = "synthesized"
    /\ Len(Get(psynthesis, "synergies", << >>)) >= 2
    /\ Len(Collected) > 8
    /\ ~IsSynergyAction(Collected[1])
    /\ \E i \in 1..Len(Collected) : priority_terms(Collected[i]) = << 4, 3, 4, 10 >>
    /\ IsSynergyAction(PlanActions(psynthesis)[1])

-----------------------------------------------------------------------------
(* Properties of the estimators, under ExpertSpec                           *)

EstimatorReturned == estep = "analyzed"

\* the pattern record of the analysis
PatternsOf(analysis) ==
    CASE edomain = "home" -> analysis.energy_patterns
      [] edomain = "transport" -> analysis.transport_patterns
      [] edomain = "diet" -> analysis.dietary_patterns
      [] edomain = "shopping" -> analysis.shopping_patterns

\* C12: for each of the four estimators and every pattern record its
\* pattern extraction produces (the defaults included), the footprint is
\* non-negative and the efficiency score lies within [0, 1].
C12_EstimatesWithinRange ==
    EstimatorReturned =>
        /\ eanalysis.carbon_footprint >= 0
        /\ eanalysis.efficiency_score \in 0..100
        /\ edomain = "transport" =>
              calculate_transport_efficiency(eanalysis.transport_patterns) \in 0..1000

\* a shopping pattern whose penalties add up to less than zero, scored 0
C12_Witness ==
    /\ EstimatorReturned
    /\ edomain = "shopping"
    /\ eanalysis.shopping_patterns.fast_fashion
    /\ eanalysis.shopping_patterns.luxury_purchases
    /\ eanalysis.shopping_patterns.shopping_frequency = "daily"
    /\ eanalysis.efficiency_score = 0
    /\ eanalysis.carbon_footprint > 0

\* the analyses come from the experts: they carry the pattern records
HasPatterns ==
    /\ "energy_patterns" \in DOMAIN pinput.home
    /\ "transport_patterns" \in DOMAIN pinput.transport

\* no renewable energy at home and a sedan, suv or luxury car
EvSolarCase ==
    /\ HasPatterns
    /\ ~pinput.home.energy_patterns.renewable_energy
    /\ pinput.transport.transport_patterns.primary_vehicle \in {"sedan", "suv", "luxury_car"}

EvSolarSynergies ==
    SelectSeq(psynthesis.synergies, LAMBDA y : y.type = "home_transport_ev_solar")

\* C13: when the home pattern has no renewable energy and the primary
\* vehicle is a sedan, suv or luxury car, synthesize returns exactly one
\* synergy of type home_transport_ev_solar, its multiplier is 1.5, and
\* prioritized_actions holds a cross-domain intervention of priority "high"
\* whose action is that synergy's description.
C13_EvSolarSynergy ==
    (Synthesized /\ EvSolarCase) =>
        /\ Len(EvSolarSynergies) = 1
        /\ EvSolarSynergies[1].synergy_multiplier = 15
        /\ \E i \in 1..Len(psynthesis.prioritized_actions) :
              LET a == psynthesis.prioritized_actions[i]
              IN  /\ a.domain = "cross_domain"
                  /\ a.priority = "high"
                  /\ a.action = EvSolarSynergies[1].description

\* the synthesis of a request with an suv and no renewables
C13_Witness ==
    /\ Synthesized
    /\ EvSolarCase
    /\ pinput.transport.transport_patterns.primary_vehicle = "suv"
    /\ Len(EvSolarSynergies) = 1
    /\ psynthesis.prioritized_actions[1].action = "Solar panels + Electric vehicle combo"

\* the text has the word "bike" and none of the keywords of another vehicle
MentionsBikeOnly(user_input) ==
    LET text == Lower(user_input)
    IN  /\ Contains("bike", text)
        /\ \A i \in 1..Len(vehicle_keywords) :
              vehicle_keywords[i][1] # "motorcycle" =>
                  ~ContainsAny(vehicle_keywords[i][2], text)

\* C14: for a text that mentions "bike" and names no car, the vehicle part
\* of the transport footprint is (about) zero: the primary vehicle has
\* emission factor 0, so the daily distance contributes nothing.
C14_BikeHasNoVehicleEmissions ==
    (EstimatorReturned /\ edomain = "transport" /\ MentionsBikeOnly(etext)) =>
        /\ Get(emission_factors, eanalysis.transport_patterns.primary_vehicle, 18) = 0
        /\ annual_vehicle_emissions(eanalysis.transport_patterns) < 50

\* the record of the refinement that was repeated, and of its repetition
FirstPass == precords[Len(precords)]
SecondPass == prepeat

\* C16: if a first refine_plan call reports overall_improvement > 0, then
\* refine_plan applied to that call's refined_plan with the same history
\* gives a quality_score not lower than the first call's, or reports
\* significant_improvement = False.
C16_RepeatedRefinementKeepsQuality ==
    (pstep = "repeated"
       /\ FracGT(FirstPass.improvement_validation.overall_improvement, 0, 1)) =>
        \/ SecondPass.quality_score >= FirstPass.quality_score
        \/ ~SecondPass.improvement_validation.significant_improvement

\* a first pass that changed and improved the plan, repeated on its outcome
C16_Witness ==
    /\ pstep = "repeated"
    /\ FirstPass.refined_plan # RefinedFrom(Len(precords))
    /\ FracGT(FirstPass.improvement_validation.overall_improvement, 0, 1)
    /\ SecondPass.refinement_opportunities # << >>
    /\ SecondPass.quality_score >= FirstPass.quality_score
    /\ ~SecondPass.improvement_validation.significant_improvement

\* the names of the checks that failed in a validation, and the issue
\* _identify_critical_issues reports for each
FailedChecks(validation_results) ==
    { c \in { ValidationChecks[i] : i \in 1..Len(ValidationChecks) } :
        ~validation_results.validation_checks[c].passed }

CriticalIssueOf(check_name) ==
    CASE check_name = "completeness" -> "Plan does not cover all major emission domains"
      [] check_name = "consistency" -> "Internal inconsistencies in recommendations"
      [] check_name = "actionability" -> "Recommendations lack specific actionable steps"
      [] check_name = "measurability" -> "Outcomes are not sufficiently measurable"

\* C17: a failed validation does not stop the evaluation: for every plan, the
\* empty one included, evaluate_and_finalize returns a final plan;
\* validation_passed is true exactly when at least 3 of the 4 checks pass;
\* critical_issues holds exactly one entry for each failed check, and is
\* empty exactly when all four pass.
C17_ValidationNeverFatal ==
    /\ pstep \in {"synthesized", "refined"} =>
          \A user_input \in UserInputs :
              ~evaluate_and_finalize_raises(EvaluationInput(pplan, precords, user_input))
    /\ Evaluated =>
          LET validation_results == pevaluation.validation_results
              failed == FailedChecks(validation_results)
              critical_issues == validation_results.critical_issues
          IN  /\ "final_plan" \in DOMAIN pevaluation
              /\ "final_actions" \in DOMAIN pevaluation.final_plan
              /\ validation_results.validation_passed <=> Cardinality(failed) <= 1
              /\ Len(critical_issues) = Cardinality(failed)
              /\ { critical_issues[i] : i \in 1..Len(critical_issues) }
                   = { CriticalIssueOf(c) : c \in failed }
              /\ critical_issues = << >> <=> failed = {}

\* an empty plan evaluated: three checks fail, the validation does not pass,
\* and the final plan is there
C17_Witness ==
    /\ Evaluated
    /\ PlanActions(pplan) = << >>
    /\ ~pevaluation.validation_results.validation_passed
    /\ Len(pevaluation.validation_results.critical_issues) = 3
    /\ pevaluation.final_plan.final_actions = << >>

\* the interventions in discovery order: the domains in the order home,
\* transport, diet, shopping, each domain's recommendations in their own
\* order, then the synergies
Discovered ==
    Flatten([i \in 1..Len(DomainOrder) |->
                DomainInterventions(DomainOrder[i], pinput[DomainOrder[i]])])
    \o [i \in 1..Len(psynthesis.synergies) |-> SynergyIntervention(psynthesis.synergies[i])]

\* the place at which an intervention was discovered
DiscoveryIndex(intervention, discovered) ==
    CHOOSE k \in 1..Len(discovered) :
        /\ discovered[k] = intervention
        /\ \A j \in 1..(k - 1) : discovered[j] # intervention

Scores(interventions) ==
    [i \in 1..Len(interventions) |-> calculate_priority_score(interventions[i])]

\* two kept interventions with the same score
SameScoreKept ==
    LET kept == psynthesis.prioritized_actions
    IN  \E scores \in { Scores(kept) } :
            \E i, j \in 1..Len(kept) :
                i < j /\ kept[i] # kept[j] /\ scores[i] = scores[j]

\* kept, with these scores, is what the claim says of discovered, with those
OrderedAndCut(kept, scores, discovered, discovered_scores) ==
    /\ Len(kept) = Min(8, Len(discovered))
    /\ \A i \in 1..Len(kept) : InList(kept[i], discovered)
    /\ \A i, j \in 1..Len(kept) :
          i < j =>
            /\ scores[i] >= scores[j]
            /\ (scores[i] = scores[j] /\ kept[i] # kept[j]) =>
                  DiscoveryIndex(kept[i], discovered) < DiscoveryIndex(kept[j], discovered)
    /\ \A k \in 1..Len(discovered) :
          ~InList(discovered[k], kept) =>
              \A i \in 1..Len(kept) : discovered_scores[k] <= scores[i]

\* C19: prioritized_actions is ordered by non-increasing priority score; two
\* interventions with equal score keep their discovery order; and every
\* intervention cut by the limit of 8 has a score not greater than that of
\* every intervention kept.
C19_PrioritizedOrder ==
    pstep = "synthesized" =>
        \A discovered \in { Discovered } :
            OrderedAndCut(psynthesis.prioritized_actions,
                          Scores(psynthesis.prioritized_actions),
                          discovered, Scores(discovered))

\* a synthesis that discovered more than 8 interventions and kept two of
\* equal score
C19_Witness ==
    /\ pstep = "synthesized"
    /\ Len(Discovered) > 8
    /\ Len(psynthesis.prioritized_actions) = 8
    /\ SameScoreKept

\* 0.35*carbon impact + 0.25*feasibility + 0.20*cost-benefit + 0.15*UX
\* + 0.05*sustainability over the sub-scores of an evaluation, in thousandths
WeightedSubScores(evaluation_results) ==
    RoundDiv(35 * evaluation_results.carbon_impact.impact_score
           + 25 * evaluation_results.feasibility.feasibility_score
           + 20 * evaluation_results.cost_benefit.cost_benefit_score
           + 15 * evaluation_results.user_experience.ux_score
           + 5 * evaluation_results.sustainability.sustainability_score, 10)

\* C20: overall_score is 0.35*carbon-impact score + 0.25*feasibility score
\* + 0.20*cost-benefit score + 0.15*UX score + 0.05*sustainability score, each
\* term being the sub-score computed for the plan (so that plans differing
\* only in their UX sub-score differ in overall_score).  A difference of one
\* thousandth, which rounding alone can cause, is let pass.
C20_OverallScoreWeighsSubScores ==
    Evaluated =>
        LET evaluation_results == pevaluation.evaluation_results
            difference == evaluation_results.overall_score
                            - WeightedSubScores(evaluation_results)
        IN  difference \in -1..1

-----------------------------------------------------------------------------
(* Properties of the refinement loop over successive runs, under RefineSpec *)

\* the record the latest run appended, and the synthesis it was made from
LastRecord == precords[Len(precords)]
Refined == pstep = "refined" /\ precords # << >>

\* the strategies of a record's opportunities, in the order of discovery
Strategies(record) ==
    [i \in 1..Len(record.refinement_opportunities) |->
        record.refinement_opportunities[i].refinement_strategy]

\* the four strategies tied to a metric, in the order of their tests, each
\* with its metric and its threshold in tenths
MetricStrategies ==
    << [strategy |-> "decomposition_and_phasing", metric |-> "feasibility_score", below |-> 7],
       [strategy |-> "cost_benefit_reordering", metric |-> "cost_effectiveness", below |-> 6],
       [strategy |-> "dependency_analysis", metric |-> "implementation_clarity", below |-> 8],
       [strategy |-> "impact_prioritization", metric |-> "impact_score", below |-> 5] >>

BelowThreshold(quality_assessment, m) ==
    10 * quality_assessment[m.metric] < m.below * quality_assessment.den

\* the position of a strategy in the order of the tests, adaptive_learning last
StrategyRank(strategy) ==
    IF \E k \in 1..Len(MetricStrategies) : MetricStrategies[k].strategy = strategy
    THEN CHOOSE k \in 1..Len(MetricStrategies) : MetricStrategies[k].strategy = strategy
    ELSE Len(MetricStrategies) + 1

\* C21: every record of refine_plan holds one opportunity for each metric of
\* its quality assessment that lies below the metric's threshold
\* (feasibility_score < 0.7, cost_effectiveness < 0.6, implementation_clarity
\* < 0.8, impact_score < 0.5) and none for a metric that does not; the
\* opportunities stand in the order of these tests, and every
\* adaptive_learning opportunity comes after them.
C21_OpportunityPerMetricBelowThreshold ==
    Refined =>
        \A strategies \in { Strategies(LastRecord) } :
            /\ \A k \in 1..Len(MetricStrategies) :
                  Cardinality({i \in 1..Len(strategies) :
                                  strategies[i] = MetricStrategies[k].strategy})
                    = IF BelowThreshold(LastRecord.quality_assessment, MetricStrategies[k])
                      THEN 1 ELSE 0
            /\ \A i \in 1..Len(strategies) :
                  \/ StrategyRank(strategies[i]) <= Len(MetricStrategies)
                  \/ strategies[i] = "adaptive_learning"
            /\ \A i, j \in 1..Len(strategies) :
                  i < j => StrategyRank(strategies[i]) <= StrategyRank(strategies[j])

\* a record with an opportunity for some metric, none for another, and an
\* adaptive_learning opportunity behind them
C21_Witness ==
    /\ Refined
    /\ \E k \in 1..Len(MetricStrategies) :
          BelowThreshold(LastRecord.quality_assessment, MetricStrategies[k])
    /\ \E k \in 1..Len(MetricStrategies) :
          ~BelowThreshold(LastRecord.quality_assessment, MetricStrategies[k])
    /\ \E i \in 2..Len(LastRecord.refinement_opportunities) :
          Strategies(LastRecord)[i] = "adaptive_learning"

HasStrategy(record, strategy) ==
    \E i \in 1..Len(record.refinement_opportunities) :
        record.refinement_opportunities[i].refinement_strategy = strategy

\* the plan a record's call held before it applied its k-th opportunity
PlanBefore(synthesis, record, k) ==
    ApplyFirst(synthesis, record.refinement_opportunities, k - 1)

\* the place of the impact_prioritization opportunity in a record that has one
ImpactStep(record) ==
    CHOOSE k \in 1..Len(record.refinement_opportunities) :
        record.refinement_opportunities[k].refinement_strategy = "impact_prioritization"

ByImpact(actions) ==
    \A i, j \in 1..Len(actions) : i < j => impact_score(actions[i]) >= impact_score(actions[j])

\* C22: a refined plan whose call found an impact_prioritization opportunity
\* has at most 6 actions, in the order of non-increasing impact number (the
\* last number of co2_reduction, 0.5 without one), whatever the strategies
\* applied before it in the same call did to the list.
C22_ImpactPrioritizationLast ==
    (Refined /\ HasStrategy(LastRecord, "impact_prioritization")) =>
        \A actions \in { PlanActions(LastRecord.refined_plan) } :
            /\ Len(actions) <= 6
            /\ ByImpact(actions)

\* a call in which decomposition made the list longer than 6 and the cost
\* and the dependency reordering both ran before the impact prioritization,
\* which found the list out of impact order
C22_Witness ==
    /\ Refined
    /\ HasStrategy(LastRecord, "decomposition_and_phasing")
    /\ HasStrategy(LastRecord, "cost_benefit_reordering")
    /\ HasStrategy(LastRecord, "dependency_analysis")
    /\ HasStrategy(LastRecord, "impact_prioritization")
    /\ \A before \in { PlanActions(PlanBefore(psynthesis, LastRecord, ImpactStep(LastRecord))) } :
          /\ Len(before) > Len(PlanActions(psynthesis))
          /\ Len(before) > 6
          /\ ~ByImpact(before)
    /\ Len(PlanActions(LastRecord.refined_plan)) = 6

LowFeasibility(action) == Get(action, "feasibility", NoneStr) = "low"

\* the sub-actions the decomposition makes of a low-feasibility action
SubActionCount(action) ==
    LET text == Lower(Get(action, "action", ""))
    IN  IF Contains("solar panels", text) \/ Contains("electric vehicle", text)
        THEN 3 ELSE 2

\* the actions that stand for the i-th input action in the decomposed list
Share(actions, i) == IF LowFeasibility(actions[i]) THEN SubActionCount(actions[i]) ELSE 1

RECURSIVE SharesBefore(_, _)
SharesBefore(actions, i) ==
    IF i = 1 THEN 0 ELSE SharesBefore(actions, i - 1) + Share(actions, i - 1)

InheritedFields == {"priority", "co2_reduction", "cost_impact", "urgency", "domain"}

Inherits(sub_action, parent) ==
    /\ DOMAIN sub_action = DOMAIN parent \cup {"action", "feasibility"}
    /\ \A f \in DOMAIN parent \ {"action", "feasibility"} : sub_action[f] = parent[f]
    /\ \A f \in InheritedFields :
          Get(sub_action, f, None) = Get(parent, f, None)

Decomposed(input, output) ==
    /\ Len(output) = SharesBefore(input, Len(input) + 1)
    /\ \A i \in 1..Len(input) :
          \A first \in { SharesBefore(input, i) + 1 } :
              IF LowFeasibility(input[i])
              THEN \A k \in 0..(Share(input, i) - 1) :
                      /\ Inherits(output[first + k], input[i])
                      /\ \A l \in 0..(k - 1) : output[first + l] # output[first + k]
              ELSE output[first] = input[i]

\* the place of the decomposition opportunity in a record that has one
DecompositionStep(record) ==
    CHOOSE k \in 1..Len(record.refinement_opportunities) :
        record.refinement_opportunities[k].refinement_strategy = "decomposition_and_phasing"

\* the action lists the decomposition of the latest call took and gave
DecompositionInput ==
    PlanActions(PlanBefore(psynthesis, LastRecord, DecompositionStep(LastRecord)))
DecompositionOutput ==
    PlanActions(PlanBefore(psynthesis, LastRecord, DecompositionStep(LastRecord) + 1))

\* C24: the decomposition puts, in the place of every action of feasibility
\* "low", 3 sub-actions when the action's text mentions solar panels or
\* electric vehicle and 2 otherwise; the sub-actions differ from each other
\* and carry their parent's priority, co2_reduction, cost_impact, urgency
\* and domain; every other action stays as it was, in the same order.
C24_DecompositionInPlace ==
    (Refined /\ HasStrategy(LastRecord, "decomposition_and_phasing")) =>
        \A input \in { DecompositionInput } : \A output \in { DecompositionOutput } :
            Decomposed(input, output)

\* a decomposition that made 3 sub-actions of one action and 2 of another,
\* and kept a third
C24_Witness ==
    /\ Refined
    /\ HasStrategy(LastRecord, "decomposition_and_phasing")
    /\ \E i, j, k \in 1..Len(DecompositionInput) :
          /\ LowFeasibility(DecompositionInput[i]) /\ SubActionCount(DecompositionInput[i]) = 3
          /\ LowFeasibility(DecompositionInput[j]) /\ SubActionCount(DecompositionInput[j]) = 2
          /\ ~LowFeasibility(DecompositionInput[k])
          /\ j < k

\* the opportunity types refine_plan gives out
OpportunityTypes ==
    { "feasibility_improvement", "cost_optimization", "sequencing_optimization",
      "impact_maximization", "recurring_issue_resolution" }

HasType(record, type) ==
    \E i \in 1..Len(record.refinement_opportunities) :
        record.refinement_opportunities[i].type = type

\* the history the latest call was given
History == SubSeq(precords, 1, Len(precords) - 1)

\* the records of a history with an opportunity of the type
RecordsWith(history, type) == {r \in 1..Len(history) : HasType(history[r], type)}

\* the adaptive_learning opportunities of a record that name the type
LearnedFor(record, type) ==
    {i \in 1..Len(record.refinement_opportunities) :
        /\ record.refinement_opportunities[i].refinement_strategy = "adaptive_learning"
        /\ record.refinement_opportunities[i].description
             = "Address recurring issue: " \o type}

\* C25: refine_plan gives an adaptive_learning opportunity for an
\* opportunity type exactly when at least two different records of the
\* history it was handed hold an opportunity of that type; a type found in
\* one record only, however often, gets none.
C25_RecurringAcrossRecords ==
    Refined =>
        \A history \in { History } : \A type \in OpportunityTypes :
            Cardinality(LearnedFor(LastRecord, type))
              = IF Cardinality(RecordsWith(history, type)) >= 2 THEN 1 ELSE 0

\* the entries of a synthesis that describe the plan as a whole
CarriedKeys ==
    {"total_carbon_footprint", "domain_breakdown", "synergies", "impact_analysis",
     "eco_score", "synthesis_confidence"}

OtherKeys(plan) == DOMAIN plan \ {"prioritized_actions"}

\* C30: the plan refine_plan returns differs from the synthesis it was given
\* in prioritized_actions only: the footprint, the breakdown, the synergies,
\* the impact analysis with its total potential reduction, the eco score and
\* the confidence are those of the synthesis, whatever the history and
\* whatever the strategies did to the actions.
C30_RefinementKeepsTheRest ==
    Refined =>
        /\ CarriedKeys \subseteq DOMAIN psynthesis
        /\ OtherKeys(pplan) = OtherKeys(psynthesis)
        /\ \A key \in CarriedKeys : pplan[key] = psynthesis[key]
        /\ pplan.impact_analysis.total_potential_reduction
              = psynthesis.impact_analysis.total_potential_reduction

-----------------------------------------------------------------------------
(* Properties of the dependency analysis, under SequencingSpec              *)

\* the keyword lists of the three buckets of the dependency analysis
SequencingBuckets ==
    << {"insulation", "led", "thermostat", "bike", "walk"},
       {"solar", "electric vehicle", "heat pump", "ev"},
       {"meat", "diet", "shopping", "local", "second"} >>

\* the buckets whose keywords an action's text matches; 4 is the remainder
BucketsOf(action) ==
    LET matched == {b \in 1..Len(SequencingBuckets) :
                       ContainsAny(SequencingBuckets[b], Lower(Get(action, "action", "")))}
    IN  IF matched = {} THEN {Len(SequencingBuckets) + 1} ELSE matched

Occurrences(actions, action) == Cardinality({i \in 1..Len(actions) : actions[i] = action})

Rearranged(input, output) ==
    /\ Len(output) = Len(input)
    /\ \A i \in 1..Len(input) : Occurrences(output, input[i]) = Occurrences(input, input[i])
    \* no action stands behind one of a later bucket
    /\ \A i, j \in 1..Len(output) :
          i < j => \E b \in BucketsOf(output[i]) : \E c \in BucketsOf(output[j]) : b <= c
    \* different actions of the same bucket keep their order
    /\ \A i, j \in 1..Len(input) :
          (i < j /\ BucketsOf(input[i]) = BucketsOf(input[j]) /\ input[i] # input[j]) =>
              \E k, l \in 1..Len(output) :
                  k < l /\ output[k] = input[i] /\ output[l] = input[j]

Sequenced == pstep = "sequenced"

\* C23: the dependency analysis gives back the actions it took, each as
\* often as it took it, with the foundation actions first, then the major
\* investments, then the lifestyle changes, then the rest, and the order
\* inside a bucket kept - also when an action matches keywords of more
\* than one bucket.
C23_SequencingOnlyRearranges ==
    Sequenced => Rearranged(PlanActions(pinput), PlanActions(pplan))

=============================================================================
